---- MODULE Spec2Model ----
(***************************************************************************)
(* UCT (Monte-Carlo tree search) engine of common.py with its transposition *)
(* table, played on the game of Nim, the leaf-parallel driver of            *)
(* uct-leaf-parallelization.py and the tree-parallel driver of              *)
(* uct-tree-parallelization.py.                                             *)
(*                                                                          *)
(* A TreeNode object is identified by <<key, g>>: the key of its state and  *)
(* the number g of the construction of a node for that key, so that two     *)
(* nodes built for one key are different objects.  heap holds the objects,  *)
(* pool is SearchTree.__pool (key -> object).                               *)
(***************************************************************************)
EXTENDS Integers, Sequences, FiniteSets, TLC

\* ----------------------------------------------------------------- bounds
MaxChips == 4
MaxIter == 4
MaxParallel == 2
MaxChipsTP == 2
MaxIterTP == 4
MaxChipsPK == 4
MaxIterPK == 2
MaxRuns == 3
MaxChipsRP == 3
MaxIterRP == 4
MaxChipsDet == 3
MaxIterDet == 3
MaxPos == 2
RecursionLimit == 6

\* fixed-point unit of the UCB arithmetic, and the width of a tie
UcbScale == 10000
UcbTie == 4

RECURSIVE Factorial(_)
Factorial(n) == IF n <= 1 THEN 1 ELSE n * Factorial(n - 1)

\* wins and game results are floats; the model counts them in units of
\* 1 / WinUnit, which holds the mean of PARALLEL_COUNT results exactly
WinUnit == Factorial(MaxParallel)

VARIABLES
    pool,          \* SearchTree.__pool: key -> TreeNode object
    heap,          \* the TreeNode objects: object -> its fields
    gen,           \* key -> number of TreeNodes constructed for that key
    gstate,        \* uct_play_game: state
    iter_max,      \* ITER_MAX
    with_tree,     \* uct_play_game: search_tree is not None
    pc,            \* position of the sequential uct call
    should_clean,  \* uct: should_clean
    root_node,     \* uct: root_node (its TreeNode)
    it,            \* uct: i
    node,          \* uct: node, the SearchNode chain from the root
    state,         \* uct: state
    selected_node, \* uct: selected_node
    hist,          \* history of the running search, for the properties
    parallel_count, \* PARALLEL_COUNT
    th,            \* the SearchThreads: thread -> its position and locals
    table_lock,    \* SearchTree.__lock: its holder, 0 when free
    node_lock,     \* TreeNode.__lock of each object: its holder, 0 when free
    engine,        \* the script that runs: "common", "leaf" or "tree"
    threads,       \* leaf-parallel uct: threads, the state of each one
    workers,       \* root-parallel uct: workers, each with its queue
    results,       \* root-parallel uct: results, as far as they are fetched
    file,          \* search_tree.pkl: what the persistence file holds
    saved,         \* the table the last dump() wrote, for the properties
    start,         \* uct_play_game: the state a game starts from
    order,         \* the order in which dict.items() lists the moves
    twin,          \* a second run of common.uct, on the same random draws
    trav           \* clean_sub_tree: the calls of traverse and ignore_set

tpvars == <<parallel_count, th, table_lock, node_lock>>

lpvars == <<engine, threads>>

\* the state of the root-parallel driver and of the persistent tree
xvars == <<workers, results, file, saved, start, order, twin, trav>>

vars == <<pool, heap, gen, gstate, iter_max, with_tree, pc, should_clean,
          root_node, it, node, state, selected_node, hist, tpvars, lpvars,
          xvars>>

\* os.path.exists(file_name) is false
NoFile == [kind |-> "absent"]

\* no dump() yet
NotSaved == [runs |-> 0, pool |-> <<>>, heap |-> <<>>]

\* ------------------------------------------------------------- NimState
NimState(chips) == [chips |-> chips, pjm |-> 2]

Clone(s) == [chips |-> s.chips, pjm |-> s.pjm]

DoMove(s, move) == [chips |-> s.chips - move, pjm |-> 3 - s.pjm]

Min(a, b) == IF a < b THEN a ELSE b

\* range(1, min([4, chips + 1])): the list 1, 2, .. of at most three moves
GetMoves(s) == [i \in 1..(Min(4, s.chips + 1) - 1) |-> i]

\* 1.0 or 0.0, in units of 1 / WinUnit
GetResult(s, playerjm) == IF s.pjm = playerjm THEN WinUnit ELSE 0

\* str(state) = "Chips:<c> JustPlayed:<p>"
Repr(s) == <<s.chips, s.pjm>>

SeqRange(q) == {q[i] : i \in 1..Len(q)}

\* ------------------------------------------------------------- TreeNode
TreeNode(st) ==
    [wins |-> 0, visits |-> 1, state |-> Clone(st),
     child_nodes |-> <<>>, untried_moves |-> GetMoves(st)]

\* list.remove(fm): drops the first occurrence
RECURSIVE RemoveFirst(_, _)
RemoveFirst(q, fm) ==
    IF q = <<>> THEN <<>>
    ELSE IF Head(q) = fm THEN Tail(q)
    ELSE <<Head(q)>> \o RemoveFirst(Tail(q), fm)

\* a slip: the visit is not counted
TreeNodeUpdateNoVisit(n, result) ==
    [n EXCEPT !.wins = @ + result]

TreeNodeUpdate(n, result) ==
    [n EXCEPT !.visits = @ + 1, !.wins = @ + result]

\* a slip: the move stays untried
TreeNodeKeepUntried(n, fm) == n

TreeNodeRemoveUntried(n, fm) ==
    IF fm \in SeqRange(n.untried_moves)
    THEN [n EXCEPT !.untried_moves = RemoveFirst(@, fm)]
    ELSE n

\* a slip: the child is not recorded
TreeNodeDropChild(n, fm, c) == n

TreeNodePutChild(n, fm, c) ==
    IF fm \notin DOMAIN n.child_nodes
    THEN [n EXCEPT !.child_nodes = (fm :> c) @@ @]
    ELSE n

\* a slip: every untried move becomes a child
TreeNodeAddChildAll(n, fm, c) ==
    [n EXCEPT !.untried_moves = <<>>,
              !.child_nodes = [m \in DOMAIN n.child_nodes \cup SeqRange(n.untried_moves)
                                  |-> IF m \in DOMAIN n.child_nodes
                                      THEN n.child_nodes[m] ELSE c]]

TreeNodeAddChild(n, fm, c) ==
    TreeNodePutChild(TreeNodeRemoveUntried(n, fm), fm, c)

\* a slip: the children are not visited
TraverseSelf(h, id) == {id}

\* traverse(fun) with fun = ignore_set.add: the objects it adds
RECURSIVE Traverse(_, _)
Traverse(h, id) ==
    UNION {Traverse(h, h[id].child_nodes[m]) : m \in DOMAIN h[id].child_nodes}
        \cup {id}

\* ------------------------------------------------------------------ ucb
LnTable ==
    <<0, 6931, 10986, 13863, 16094, 17918, 19459, 20794, 21972, 23026,
      23979, 24849, 25649, 26391, 27081, 27726, 28332, 28904, 29444, 29957,
      30445, 30910, 31355, 31781, 32189, 32581, 32958, 33322, 33673, 34012,
      34340, 34657, 34965, 35264, 35553, 35835, 36109, 36376, 36636, 36889,
      37136, 37377, 37612, 37842, 38067, 38286, 38501, 38712, 38918, 39120,
      39318, 39512, 39703, 39890, 40073, 40254, 40431, 40604, 40775, 40943,
      41109, 41271, 41431, 41589>>

\* math.log(v) in units of 1/UcbScale
Log(v) == LnTable[v]

RECURSIVE SqrtBetween(_, _, _)
SqrtBetween(x, lo, hi) ==
    IF lo = hi THEN lo
    ELSE LET mid == (lo + hi + 1) \div 2
         IN IF mid * mid <= x THEN SqrtBetween(x, mid, hi)
            ELSE SqrtBetween(x, lo, mid - 1)

\* math.sqrt(x / UcbScale^2) in units of 1/UcbScale
Sqrt(x) == SqrtBetween(x, 0, 46340)

\* value() in units of 1/UcbScale
Value(n) == (n.wins * UcbScale) \div (n.visits * WinUnit)

\* ucb(parent, constant), constant 0 or 1, in units of 1/UcbScale
Ucb(n, parent, constant) ==
    Value(n) + constant * Sqrt((2 * Log(parent.visits) * UcbScale) \div n.visits)

\* ------------------------------------------------------------ SearchTree
\* get_node: the object the call returns
Made(g, key) == IF key \in DOMAIN g THEN g[key] ELSE 0

GetNodeId(p, g, st) ==
    IF Repr(st) \in DOMAIN p THEN p[Repr(st)] ELSE <<Repr(st), Made(g, Repr(st)) + 1>>

GetNodePool(p, g, st) ==
    IF Repr(st) \in DOMAIN p THEN p ELSE (Repr(st) :> GetNodeId(p, g, st)) @@ p

GetNodeHeap(p, h, g, st) ==
    IF Repr(st) \in DOMAIN p THEN h ELSE (GetNodeId(p, g, st) :> TreeNode(st)) @@ h

GetNodeGen(p, g, st) ==
    IF Repr(st) \in DOMAIN p THEN g
    ELSE [k \in DOMAIN g \cup {Repr(st)} |->
             IF k = Repr(st) THEN Made(g, k) + 1 ELSE g[k]]

\* a slip: the entries of ignore_set are the ones deleted
CleanSubTreeInverted(p, h, ignored) ==
    LET ignore_set == Traverse(h, ignored)
        kept == {k \in DOMAIN p : p[k] \notin ignore_set}
    IN [k \in kept |-> p[k]]

\* clean_sub_tree: the pool it leaves
CleanSubTree(p, h, ignored) ==
    LET ignore_set == Traverse(h, ignored)
        kept == {k \in DOMAIN p : p[k] \in ignore_set}
    IN [k \in kept |-> p[k]]

\* the objects still referenced from the set S of objects
RECURSIVE Closure(_, _)
Closure(h, S) ==
    LET T == S \cup UNION {{h[id].child_nodes[m] : m \in DOMAIN h[id].child_nodes} :
                              id \in S \cap DOMAIN h}
    IN IF T = S THEN S ELSE Closure(h, T)

PoolNodes(p) == {p[k] : k \in DOMAIN p}

\* the heap once the objects no longer referenced from the pool are freed
Collect(p, h) == [id \in Closure(h, PoolNodes(p)) \cap DOMAIN h |-> h[id]]

\* every node below id has tried all its moves
FullyExpanded(h, id) ==
    \A x \in Closure(h, {id}) : h[x].untried_moves = <<>>

\* ------------------------------------------------------------ SearchNode
Last(q) == q[Len(q)]

SearchNode(move, parent, tn) == Append(parent, [move |-> move, tn |-> tn])

\* a slip: min() for max()
UctSelectChildMin(h, tn, constant) ==
    LET cs == h[tn].child_nodes
        score(m) == Ucb(h[cs[m]], h[tn], constant)
    IN {m \in DOMAIN cs :
           \A m2 \in DOMAIN cs : score(m) <= score(m2) + constant * UcbTie}

\* uct_select_child: the moves max() may return; scores closer than the
\* resolution of the fixed-point arithmetic count as equal, and among equal
\* scores the order of dict.items() decides
UctSelectChild(h, tn, constant) ==
    LET cs == h[tn].child_nodes
        score(m) == Ucb(h[cs[m]], h[tn], constant)
    IN {m \in DOMAIN cs :
           \A m2 \in DOMAIN cs : score(m2) <= score(m) + constant * UcbTie}

\* the Select loop: the chains it can end with
RECURSIVE SelectLoop(_, _)
SelectLoop(h, nd) ==
    LET tn == Last(nd).tn
    IN IF h[tn].untried_moves = <<>> /\ DOMAIN h[tn].child_nodes # {}
       THEN UNION {SelectLoop(h, SearchNode(m, nd, h[tn].child_nodes[m])) :
                      m \in UctSelectChild(h, tn, 1)}
       ELSE {nd}

\* the Rollout loop: the terminal states it can end with
RECURSIVE RolloutLoop(_)
RolloutLoop(s) ==
    IF GetMoves(s) = <<>> THEN {s}
    ELSE UNION {RolloutLoop(DoMove(s, m)) : m \in SeqRange(GetMoves(s))}

\* a slip: the walk stops below the root
RECURSIVE BackpropLoopBelowRoot(_, _, _)
BackpropLoopBelowRoot(h, nd, s) ==
    IF Len(nd) <= 1 THEN h
    ELSE LET tn == Last(nd).tn
         IN BackpropLoopBelowRoot(
                [h EXCEPT ![tn] = TreeNodeUpdate(@, GetResult(s, h[tn].state.pjm))],
                SubSeq(nd, 1, Len(nd) - 1), s)

\* a slip: every node of the heap is updated
BackpropLoopAll(h, nd, s) ==
    [id \in DOMAIN h |-> TreeNodeUpdate(h[id], GetResult(s, h[id].state.pjm))]

\* the Backpropagate loop
RECURSIVE BackpropLoop(_, _, _)
BackpropLoop(h, nd, s) ==
    IF nd = <<>> THEN h
    ELSE LET tn == Last(nd).tn
         IN BackpropLoop(
                [h EXCEPT ![tn] = TreeNodeUpdate(@, GetResult(s, h[tn].state.pjm))],
                SubSeq(nd, 1, Len(nd) - 1), s)

None == [move |-> 0, tn |-> <<>>]

Hist0 ==
    [searches |-> 0, visits0 |-> 0, full0 |-> FALSE, kept |-> <<>>,
     kept_wins |-> 0, kept_visits |-> 0, made |-> <<>>,
     phases |-> <<0, 0, 0, 0>>, raced |-> FALSE, ledger |-> <<>>,
     alias |-> {}]

\* a slip: state = node.state(), the object the TreeNode holds
StateCloneShared(id) == {id}

\* state = node.state().clone(): the TreeNodes whose __state is the object
\* the variable state refers to; clone() gives an object no TreeNode holds
StateClone(id) == {}

\* self.__state = state.clone() in TreeNode.__init__: the new TreeNode does
\* not hold the object it was constructed from
InitClone(id) == {}

\* state.do_move(m) changes the object: every TreeNode that holds the object
\* has the new position
DoMoveThrough(h, al, s) ==
    [id \in DOMAIN h |-> IF id \in al THEN [h[id] EXCEPT !.state = s] ELSE h[id]]

\* ------------------------------------------------------------------ Init
Init ==
    /\ pool = <<>>
    /\ heap = <<>>
    /\ gen = <<>>
    /\ gstate \in {NimState(c) : c \in 1..MaxChips}
    /\ iter_max \in 1..MaxIter
    /\ with_tree \in BOOLEAN
    /\ pc = "idle"
    /\ should_clean = FALSE
    /\ root_node = <<>>
    /\ it = 0
    /\ node = <<>>
    /\ state = gstate
    /\ selected_node = None
    /\ hist = Hist0
    /\ parallel_count = 1
    /\ th = <<>>
    /\ table_lock = 0
    /\ node_lock = <<>>
    /\ engine = "common"
    /\ threads = <<>>
    /\ workers = <<>>
    /\ results = <<>>
    /\ file = NoFile
    /\ saved = NotSaved
    /\ start = gstate
    /\ order = <<1, 2, 3>>
    /\ twin = <<>>
    /\ trav = <<>>

\* ---------------------------------------------------- sequential common.uct
\* uct_play_game calls uct(state, ITER_MAX, search_tree); uct up to the loop
UctStart ==
    /\ UNCHANGED <<tpvars, lpvars, xvars>>
    /\ pc = "idle"
    /\ GetMoves(gstate) # <<>>
    /\ LET p0 == IF with_tree THEN pool ELSE <<>>
           h0 == IF with_tree THEN heap ELSE <<>>
           g0 == IF with_tree THEN gen ELSE <<>>
           rn == GetNodeId(p0, g0, gstate)
       IN /\ should_clean' = with_tree
          /\ pool' = GetNodePool(p0, g0, gstate)
          /\ heap' = GetNodeHeap(p0, h0, g0, gstate)
          /\ gen' = GetNodeGen(p0, g0, gstate)
          /\ root_node' = rn
          /\ hist' = [hist EXCEPT !.searches = @ + 1,
                                  !.visits0 = heap'[rn].visits,
                                  !.full0 = FullyExpanded(heap', rn),
                                  !.made = IF rn \in DOMAIN h0 THEN <<>> ELSE rn,
                                  !.phases = <<0, 0, 0, 0>>]
    /\ it' = 0
    /\ node' = <<>>
    /\ state' = gstate
    /\ selected_node' = None
    /\ pc' = IF iter_max > 0 THEN "select" ELSE "final"
    /\ UNCHANGED <<gstate, iter_max, with_tree>>

\* node = root_node; the Select loop; state = node.state().clone()
Select ==
    /\ UNCHANGED <<tpvars, lpvars, xvars>>
    /\ pc = "select"
    /\ \E nd \in SelectLoop(heap, SearchNode(0, <<>>, root_node)) :
          /\ node' = nd
          /\ state' = Clone(heap[Last(nd).tn].state)
          /\ hist' = [hist EXCEPT !.made = <<>>, !.phases[1] = @ + 1,
                                  !.alias = StateClone(Last(nd).tn)]
    /\ pc' = "expand"
    /\ UNCHANGED <<pool, heap, gen, gstate, iter_max, with_tree, should_clean,
                   root_node, it, selected_node>>

\* Expand: random.choice of an untried move, do_move, get_node, add_child
Expand ==
    /\ UNCHANGED <<tpvars, lpvars, xvars>>
    /\ pc = "expand"
    /\ LET tn == Last(node).tn
       IN IF heap[tn].untried_moves # <<>>
          THEN \E m \in SeqRange(heap[tn].untried_moves) :
                  LET s == DoMove(state, m)
                      c == GetNodeId(pool, gen, s)
                      h1 == GetNodeHeap(pool, DoMoveThrough(heap, hist.alias, s),
                                        gen, s)
                  IN /\ state' = s
                     /\ pool' = GetNodePool(pool, gen, s)
                     /\ gen' = GetNodeGen(pool, gen, s)
                     /\ heap' = [h1 EXCEPT ![tn] = TreeNodeAddChild(@, m, c)]
                     /\ node' = SearchNode(m, node, c)
                     /\ hist' = [hist EXCEPT
                            !.made = IF c \in DOMAIN heap THEN <<>> ELSE c,
                            !.phases[2] = @ + 1,
                            !.alias = IF c \in DOMAIN heap THEN @
                                      ELSE @ \cup InitClone(c)]
          ELSE /\ hist' = [hist EXCEPT !.phases[2] = @ + 1]
               /\ UNCHANGED <<state, pool, gen, heap, node>>
    /\ pc' = "rollout"
    /\ UNCHANGED <<gstate, iter_max, with_tree, should_clean, root_node, it,
                   selected_node>>

\* Rollout: random moves until the state is terminal
Rollout ==
    /\ UNCHANGED <<tpvars, lpvars, xvars>>
    /\ pc = "rollout"
    /\ state' \in RolloutLoop(state)
    /\ heap' = DoMoveThrough(heap, hist.alias, state')
    /\ pc' = "backprop"
    /\ hist' = [hist EXCEPT !.phases[3] = @ + 1]
    /\ UNCHANGED <<pool, gen, gstate, iter_max, with_tree, should_clean,
                   root_node, it, node, selected_node>>

\* Backpropagate, and the step of the for loop
Backpropagate ==
    /\ UNCHANGED <<tpvars, lpvars, xvars>>
    /\ pc = "backprop"
    /\ heap' = BackpropLoop(heap, node, state)
    /\ node' = <<>>
    /\ it' = it + 1
    /\ pc' = IF it + 1 < iter_max THEN "select" ELSE "final"
    /\ hist' = [hist EXCEPT !.made = <<>>, !.phases[4] = @ + 1]
    /\ UNCHANGED <<pool, gen, gstate, iter_max, with_tree, should_clean,
                   root_node, state, selected_node>>

\* selected_node = root_node.uct_select_child(0.0), which asserts children
FinalSelect ==
    /\ UNCHANGED <<tpvars, lpvars, xvars>>
    /\ pc = "final"
    /\ IF DOMAIN heap[root_node].child_nodes = {}
       THEN /\ pc' = "assert_failed"
            /\ UNCHANGED selected_node
       ELSE /\ \E m \in UctSelectChild(heap, root_node, 0) :
                  selected_node' = [move |-> m, tn |-> heap[root_node].child_nodes[m]]
            /\ pc' = IF should_clean THEN "clean" ELSE "returned"
    /\ UNCHANGED <<pool, heap, gen, gstate, iter_max, with_tree, should_clean,
                   root_node, it, node, state, hist>>

\* root_node.clean_sub_tree(selected_node, search_tree), and the return
Clean ==
    /\ UNCHANGED <<tpvars, lpvars, xvars>>
    /\ pc = "clean"
    /\ pool' = CleanSubTree(pool, heap, selected_node.tn)
    /\ pc' = "returned"
    /\ UNCHANGED <<heap, gen, gstate, iter_max, with_tree, should_clean,
                   root_node, it, node, state, selected_node, hist>>

\* uct_play_game: state.do_move(m) with the move uct returned; the objects
\* only the finished call referred to are freed
PlayMove ==
    /\ UNCHANGED <<tpvars, lpvars, xvars>>
    /\ pc = "returned"
    /\ gstate' = DoMove(gstate, selected_node.move)
    /\ hist' = [hist EXCEPT !.made = <<>>,
                            !.kept = selected_node.tn,
                            !.kept_wins = heap[selected_node.tn].wins,
                            !.kept_visits = heap[selected_node.tn].visits]
    /\ pool' = IF with_tree THEN pool ELSE <<>>
    /\ heap' = Collect(pool', heap)
    /\ root_node' = <<>>
    /\ pc' = "idle"
    /\ UNCHANGED <<gen, iter_max, with_tree, should_clean, it, node, state,
                   selected_node>>

Next ==
    \/ UctStart
    \/ Select
    \/ Expand
    \/ Rollout
    \/ Backpropagate
    \/ FinalSelect
    \/ Clean
    \/ PlayMove

Spec == Init /\ [][Next]_vars

\* ------------------------------------------ uct-leaf-parallelization.py
InitLP ==
    /\ pool = <<>>
    /\ heap = <<>>
    /\ gen = <<>>
    /\ gstate \in {NimState(c) : c \in 1..MaxChips}
    /\ iter_max \in 1..MaxIter
    /\ with_tree = TRUE
    /\ pc = "idle"
    /\ should_clean = TRUE
    /\ root_node = <<>>
    /\ it = 0
    /\ node = <<>>
    /\ state = gstate
    /\ selected_node = None
    /\ hist = Hist0
    /\ parallel_count \in 1..MaxParallel
    /\ th = <<>>
    /\ table_lock = 0
    /\ node_lock = <<>>
    /\ engine = "leaf"
    /\ threads = <<>>
    /\ workers = <<>>
    /\ results = <<>>
    /\ file = NoFile
    /\ saved = NotSaved
    /\ start = gstate
    /\ order = <<1, 2, 3>>
    /\ twin = <<>>
    /\ trav = <<>>

\* sum([t.get_result(playerjm) for t in threads])
RECURSIVE SumResults(_, _)
SumResults(q, playerjm) ==
    IF q = <<>> THEN 0
    ELSE GetResult(Head(q), playerjm) + SumResults(Tail(q), playerjm)

\* a slip: the results are summed and not averaged
RECURSIVE LBackpropLoopSum(_, _, _)
LBackpropLoopSum(h, nd, q) ==
    IF nd = <<>> THEN h
    ELSE LET tn == Last(nd).tn
             result == SumResults(q, h[tn].state.pjm)
         IN LBackpropLoopSum([h EXCEPT ![tn] = TreeNodeUpdate(@, result)],
                             SubSeq(nd, 1, Len(nd) - 1), q)

\* the Backpropagate loop: each node of the chain is updated once, with the
\* mean of the threads' results
RECURSIVE LBackpropLoop(_, _, _)
LBackpropLoop(h, nd, q) ==
    IF nd = <<>> THEN h
    ELSE LET tn == Last(nd).tn
             result == SumResults(q, h[tn].state.pjm) \div Len(q)
         IN LBackpropLoop([h EXCEPT ![tn] = TreeNodeUpdate(@, result)],
                          SubSeq(nd, 1, Len(nd) - 1), q)

\* uct up to the loop
LUctStart ==
    /\ pc = "idle"
    /\ GetMoves(gstate) # <<>>
    /\ LET rn == GetNodeId(pool, gen, gstate)
       IN /\ pool' = GetNodePool(pool, gen, gstate)
          /\ heap' = GetNodeHeap(pool, heap, gen, gstate)
          /\ gen' = GetNodeGen(pool, gen, gstate)
          /\ root_node' = rn
          /\ hist' = [hist EXCEPT !.searches = @ + 1,
                                  !.visits0 = heap'[rn].visits,
                                  !.full0 = FullyExpanded(heap', rn),
                                  !.made = IF rn \in DOMAIN heap THEN <<>> ELSE rn,
                                  !.phases = <<0, 0, 0, 0>>]
    /\ it' = 0
    /\ node' = <<>>
    /\ state' = gstate
    /\ selected_node' = None
    /\ threads' = <<>>
    /\ pc' = IF iter_max > 0 THEN "select" ELSE "final"
    /\ UNCHANGED <<gstate, iter_max, with_tree, should_clean, tpvars, engine,
                   xvars>>

\* node = root_node; the Select loop; state = node.state().clone()
LSelect ==
    /\ pc = "select"
    /\ \E nd \in SelectLoop(heap, SearchNode(0, <<>>, root_node)) :
          /\ node' = nd
          /\ state' = Clone(heap[Last(nd).tn].state)
          /\ hist' = [hist EXCEPT !.made = <<>>, !.phases[1] = @ + 1,
                                  !.alias = StateClone(Last(nd).tn)]
    /\ pc' = "expand"
    /\ UNCHANGED <<pool, heap, gen, gstate, iter_max, with_tree, should_clean,
                   root_node, it, selected_node, tpvars, lpvars,
                   xvars>>

\* Expand: random.choice of an untried move, do_move, get_node, add_child
LExpand ==
    /\ pc = "expand"
    /\ LET tn == Last(node).tn
       IN IF heap[tn].untried_moves # <<>>
          THEN \E m \in SeqRange(heap[tn].untried_moves) :
                  LET s == DoMove(state, m)
                      c == GetNodeId(pool, gen, s)
                      h1 == GetNodeHeap(pool, DoMoveThrough(heap, hist.alias, s),
                                        gen, s)
                  IN /\ state' = s
                     /\ pool' = GetNodePool(pool, gen, s)
                     /\ gen' = GetNodeGen(pool, gen, s)
                     /\ heap' = [h1 EXCEPT ![tn] = TreeNodeAddChild(@, m, c)]
                     /\ node' = SearchNode(m, node, c)
                     /\ hist' = [hist EXCEPT
                            !.made = IF c \in DOMAIN heap THEN <<>> ELSE c,
                            !.phases[2] = @ + 1,
                            !.alias = IF c \in DOMAIN heap THEN @
                                      ELSE @ \cup InitClone(c)]
          ELSE /\ hist' = [hist EXCEPT !.phases[2] = @ + 1]
               /\ UNCHANGED <<state, pool, gen, heap, node>>
    /\ pc' = "rollout"
    /\ UNCHANGED <<gstate, iter_max, with_tree, should_clean, root_node, it,
                   selected_node, tpvars, lpvars,
                   xvars>>

\* Rollout: PARALLEL_COUNT SimulationThreads, each plays random moves on its
\* own clone of state until it is terminal; all are joined
LRollout ==
    /\ pc = "rollout"
    /\ threads' \in [1..parallel_count -> RolloutLoop(Clone(state))]
    /\ pc' = "backprop"
    /\ hist' = [hist EXCEPT !.phases[3] = @ + 1]
    /\ UNCHANGED <<pool, heap, gen, gstate, iter_max, with_tree, should_clean,
                   root_node, it, node, state, selected_node, tpvars, engine,
                   xvars>>

\* Backpropagate, del threads[:], and the step of the for loop
LBackpropagate ==
    /\ pc = "backprop"
    /\ heap' = LBackpropLoop(heap, node, threads)
    /\ node' = <<>>
    /\ threads' = <<>>
    /\ it' = it + 1
    /\ pc' = IF it + 1 < iter_max THEN "select" ELSE "final"
    /\ hist' = [hist EXCEPT !.made = <<>>, !.phases[4] = @ + 1]
    /\ UNCHANGED <<pool, gen, gstate, iter_max, with_tree, should_clean,
                   root_node, state, selected_node, tpvars, engine,
                   xvars>>

\* selected_node = root_node.uct_select_child(0.0), which asserts children
LFinalSelect ==
    /\ pc = "final"
    /\ IF DOMAIN heap[root_node].child_nodes = {}
       THEN /\ pc' = "assert_failed"
            /\ UNCHANGED selected_node
       ELSE /\ \E m \in UctSelectChild(heap, root_node, 0) :
                  selected_node' = [move |-> m, tn |-> heap[root_node].child_nodes[m]]
            /\ pc' = "clean"
    /\ UNCHANGED <<pool, heap, gen, gstate, iter_max, with_tree, should_clean,
                   root_node, it, node, state, hist, tpvars, lpvars,
                   xvars>>

\* root_node.clean_sub_tree(selected_node, search_tree), and the return
LClean ==
    /\ pc = "clean"
    /\ pool' = CleanSubTree(pool, heap, selected_node.tn)
    /\ pc' = "returned"
    /\ UNCHANGED <<heap, gen, gstate, iter_max, with_tree, should_clean,
                   root_node, it, node, state, selected_node, hist, tpvars,
                   lpvars, xvars>>

\* uct_play_game: state.do_move(m) with the move uct returned
LPlayMove ==
    /\ pc = "returned"
    /\ gstate' = DoMove(gstate, selected_node.move)
    /\ hist' = [hist EXCEPT !.made = <<>>,
                            !.kept = selected_node.tn,
                            !.kept_wins = heap[selected_node.tn].wins,
                            !.kept_visits = heap[selected_node.tn].visits]
    /\ heap' = Collect(pool, heap)
    /\ root_node' = <<>>
    /\ pc' = "idle"
    /\ UNCHANGED <<pool, gen, iter_max, with_tree, should_clean, it, node,
                   state, selected_node, tpvars, lpvars,
                   xvars>>

NextLP ==
    \/ LUctStart
    \/ LSelect
    \/ LExpand
    \/ LRollout
    \/ LBackpropagate
    \/ LFinalSelect
    \/ LClean
    \/ LPlayMove

SpecLP == InitLP /\ [][NextLP]_vars

\* ------------------------------------- uct-tree-parallelization.py: threads
Threads == 1..parallel_count

\* the holder of a lock that is the thread running uct
Driver == parallel_count + 1

\* iter_max / common.PARALLEL_COUNT
Share == iter_max \div parallel_count

Thread0 ==
    [pc |-> "new", i |-> 0, root |-> <<>>, node |-> <<>>, state |-> gstate,
     m |-> 0, child |-> <<>>, j |-> 0, seen |-> [wins |-> 0, visits |-> 0]]

\* uct_select_child(1.0) run without the node locks: ucb reads the wins and
\* visits of the parent and of each child while other threads update them, so
\* max() compares values read at different moments; any child may be the one
\* it returns
UctSelectChildUnlocked(h, tn) == DOMAIN h[tn].child_nodes

InitTP ==
    /\ pool = <<>>
    /\ heap = <<>>
    /\ gen = <<>>
    /\ gstate \in {NimState(c) : c \in 1..MaxChipsTP}
    /\ iter_max \in 1..MaxIterTP
    /\ with_tree = TRUE
    /\ pc = "idle"
    /\ should_clean = TRUE
    /\ root_node = <<>>
    /\ it = 0
    /\ node = <<>>
    /\ state = gstate
    /\ selected_node = None
    /\ hist = Hist0
    /\ parallel_count \in 1..MaxParallel
    /\ th = [t \in Threads |-> Thread0]
    /\ table_lock = 0
    /\ node_lock = <<>>
    /\ engine = "tree"
    /\ threads = <<>>
    /\ workers = <<>>
    /\ results = <<>>
    /\ file = NoFile
    /\ saved = NotSaved
    /\ start = gstate
    /\ order = <<1, 2, 3>>
    /\ twin = <<>>
    /\ trav = <<>>

seqlocals == <<with_tree, should_clean, it, node, state, lpvars, xvars>>

\* the lock of a TreeNode that get_node constructs: TreeNode.__init__ takes
\* and releases it
GetNodeLocks(p, g, nl, st) ==
    IF Repr(st) \in DOMAIN p THEN nl ELSE (GetNodeId(p, g, st) :> 0) @@ nl

\* uct: the threads are created and started; the caller goes on to join them
TUctStart ==
    /\ pc = "idle"
    /\ GetMoves(gstate) # <<>>
    /\ th' = [t \in Threads |-> [Thread0 EXCEPT !.pc = "root_acq", !.state = gstate]]
    /\ hist' = [hist EXCEPT
                   !.searches = @ + 1, !.made = <<>>, !.raced = FALSE,
                   !.visits0 = IF Repr(gstate) \in DOMAIN pool
                               THEN heap[pool[Repr(gstate)]].visits ELSE 1,
                   !.ledger = [id \in DOMAIN heap |->
                                  [wins |-> heap[id].wins, visits |-> heap[id].visits]]]
    /\ selected_node' = None
    /\ root_node' = <<>>
    /\ pc' = "join"
    /\ UNCHANGED <<pool, heap, gen, gstate, iter_max, parallel_count,
                   table_lock, node_lock, seqlocals>>

\* thread t is at the given place of run
At(t, place) == t \in Threads /\ th[t].pc = place

\* a thread that is given the whole budget
LoopTopWhole(r, i) ==
    IF i < iter_max
    THEN [r EXCEPT !.pc = "select", !.i = i,
                   !.node = SearchNode(0, <<>>, r.root)]
    ELSE [r EXCEPT !.pc = "done", !.i = i, !.node = <<>>]

\* the position of a thread at the top of its for loop
LoopTop(r, i) ==
    IF i < Share
    THEN [r EXCEPT !.pc = "select", !.i = i,
                   !.node = SearchNode(0, <<>>, r.root)]
    ELSE [r EXCEPT !.pc = "done", !.i = i, !.node = <<>>]

\* self.__pool[key] = node
PutNode(p, st, id) ==
    [k \in DOMAIN p \cup {Repr(st)} |-> IF k = Repr(st) THEN id ELSE p[k]]

\* run: search_tree.get_node(root_state) takes the table lock
TRootAcquire(t) ==
    /\ At(t, "root_acq")
    /\ table_lock = 0
    /\ table_lock' = t
    /\ th' = [th EXCEPT ![t].pc = "root_get"]
    /\ UNCHANGED <<pool, heap, gen, gstate, iter_max, pc, root_node,
                   selected_node, hist, parallel_count, node_lock, seqlocals>>

\* run: get_node(root_state) under the table lock.  A key of the table gives
\* its node, root_node and the first loop test; for a new key TreeNode(state)
\* is called, whose __init__ takes the lock it has just created
TRootGet(t) ==
    /\ At(t, "root_get")
    /\ IF Repr(gstate) \in DOMAIN pool
       THEN /\ table_lock' = 0
            /\ th' = [th EXCEPT ![t] =
                         LoopTop([@ EXCEPT !.root = GetNodeId(pool, gen, gstate)], 0)]
            /\ UNCHANGED <<node_lock, gen>>
       ELSE /\ node_lock' = (GetNodeId(pool, gen, gstate) :> t) @@ node_lock
            /\ gen' = GetNodeGen(pool, gen, gstate)
            /\ th' = [th EXCEPT ![t].pc = "root_init",
                                ![t].root = GetNodeId(pool, gen, gstate)]
            /\ UNCHANGED table_lock
    /\ UNCHANGED <<pool, heap, gstate, iter_max, pc, root_node,
                   selected_node, hist, parallel_count, seqlocals>>

\* run: TreeNode.__init__ sets the fields and releases the lock of the node;
\* get_node puts the node in the table and releases the table lock
TRootInit(t) ==
    /\ At(t, "root_init")
    /\ pool' = PutNode(pool, gstate, th[t].root)
    /\ heap' = (th[t].root :> TreeNode(gstate)) @@ heap
    /\ node_lock' = [node_lock EXCEPT ![th[t].root] = 0]
    /\ table_lock' = 0
    /\ th' = [th EXCEPT ![t] = LoopTop(@, 0)]
    /\ hist' = [hist EXCEPT !.ledger =
                   (th[t].root :> [wins |-> 0, visits |-> 1]) @@ @]
    /\ UNCHANGED <<gen, gstate, iter_max, pc, root_node, selected_node,
                   parallel_count, seqlocals>>

\* one test of the Select loop, with its uct_select_child or, at the end of
\* the loop, state = node.state().clone()
TSelect(t) ==
    /\ At(t, "select")
    /\ LET tn == Last(th[t].node).tn
       IN IF heap[tn].untried_moves = <<>> /\ DOMAIN heap[tn].child_nodes # {}
          THEN \E m \in UctSelectChildUnlocked(heap, tn) :
                  th' = [th EXCEPT ![t].node =
                            SearchNode(m, @, heap[tn].child_nodes[m])]
          ELSE th' = [th EXCEPT ![t].state = Clone(heap[tn].state),
                                ![t].pc = "expand_acq"]
    /\ UNCHANGED <<pool, heap, gen, gstate, iter_max, pc, root_node,
                   selected_node, hist, parallel_count, table_lock, node_lock,
                   seqlocals>>

\* Expand: node.acquire_lock()
TExpandAcquire(t) ==
    /\ At(t, "expand_acq")
    /\ node_lock[Last(th[t].node).tn] = 0
    /\ node_lock' = [node_lock EXCEPT ![Last(th[t].node).tn] = t]
    /\ th' = [th EXCEPT ![t].pc = "expand_choose"]
    /\ UNCHANGED <<pool, heap, gen, gstate, iter_max, pc, root_node,
                   selected_node, hist, parallel_count, table_lock, seqlocals>>

\* a slip: node.release_lock() is left out
TExpandChooseKeepLock(t) ==
    /\ At(t, "expand_choose")
    /\ LET tn == Last(th[t].node).tn
       IN /\ node_lock[tn] = t
          /\ IF heap[tn].untried_moves # <<>>
             THEN \E m \in SeqRange(heap[tn].untried_moves) :
                     th' = [th EXCEPT ![t].m = m,
                                      ![t].state = DoMove(@, m),
                                      ![t].pc = "get_acq"]
             ELSE th' = [th EXCEPT ![t].m = 0, ![t].pc = "rollout"]
    /\ UNCHANGED <<pool, heap, gen, gstate, iter_max, pc, root_node,
                   selected_node, hist, parallel_count, table_lock, node_lock,
                   seqlocals>>

\* Expand: m = random.choice(untried_moves) or None, node.release_lock(),
\* state.do_move(m)
TExpandChoose(t) ==
    /\ At(t, "expand_choose")
    /\ LET tn == Last(th[t].node).tn
       IN /\ node_lock[tn] = t
          /\ node_lock' = [node_lock EXCEPT ![tn] = 0]
          /\ IF heap[tn].untried_moves # <<>>
             THEN \E m \in SeqRange(heap[tn].untried_moves) :
                     th' = [th EXCEPT ![t].m = m,
                                      ![t].state = DoMove(@, m),
                                      ![t].pc = "get_acq"]
             ELSE th' = [th EXCEPT ![t].m = 0, ![t].pc = "rollout"]
    /\ UNCHANGED <<pool, heap, gen, gstate, iter_max, pc, root_node,
                   selected_node, hist, parallel_count, table_lock, seqlocals>>

\* a slip: get_node does not take the table lock
TGetNodeAcquireNoLock(t) ==
    /\ At(t, "get_acq")
    /\ th' = [th EXCEPT ![t].pc = "get_node"]
    /\ UNCHANGED <<pool, heap, gen, gstate, iter_max, pc, root_node,
                   selected_node, hist, parallel_count, table_lock, node_lock,
                   seqlocals>>

\* Expand: search_tree.get_node(state) takes the table lock
TGetNodeAcquire(t) ==
    /\ At(t, "get_acq")
    /\ table_lock = 0
    /\ table_lock' = t
    /\ th' = [th EXCEPT ![t].pc = "get_node"]
    /\ UNCHANGED <<pool, heap, gen, gstate, iter_max, pc, root_node,
                   selected_node, hist, parallel_count, node_lock, seqlocals>>

\* Expand: get_node(state) under the table lock: the node of a key of the
\* table, or TreeNode(state), whose __init__ takes the lock it has just created
TGetNode(t) ==
    /\ At(t, "get_node")
    /\ IF Repr(th[t].state) \in DOMAIN pool
       THEN /\ table_lock' = 0
            /\ th' = [th EXCEPT ![t].child = GetNodeId(pool, gen, th[t].state),
                                ![t].pc = "add_acq"]
            /\ UNCHANGED <<node_lock, gen>>
       ELSE /\ node_lock' = (GetNodeId(pool, gen, th[t].state) :> t) @@ node_lock
            /\ gen' = GetNodeGen(pool, gen, th[t].state)
            /\ th' = [th EXCEPT ![t].child = GetNodeId(pool, gen, th[t].state),
                                ![t].pc = "get_init"]
            /\ UNCHANGED table_lock
    /\ UNCHANGED <<pool, heap, gstate, iter_max, pc, root_node,
                   selected_node, hist, parallel_count, seqlocals>>

\* Expand: TreeNode.__init__ sets the fields and releases the lock of the
\* node; get_node puts the node in the table and releases the table lock
TGetInit(t) ==
    /\ At(t, "get_init")
    /\ pool' = PutNode(pool, th[t].state, th[t].child)
    /\ heap' = (th[t].child :> TreeNode(th[t].state)) @@ heap
    /\ node_lock' = [node_lock EXCEPT ![th[t].child] = 0]
    /\ table_lock' = 0
    /\ th' = [th EXCEPT ![t].pc = "add_acq"]
    /\ hist' = [hist EXCEPT !.ledger =
                   (th[t].child :> [wins |-> 0, visits |-> 1]) @@ @]
    /\ UNCHANGED <<gen, gstate, iter_max, pc, root_node, selected_node,
                   parallel_count, seqlocals>>

\* Expand: TreeNode.add_child takes the lock of the node
TAddChildAcquire(t) ==
    /\ At(t, "add_acq")
    /\ node_lock[Last(th[t].node).tn] = 0
    /\ node_lock' = [node_lock EXCEPT ![Last(th[t].node).tn] = t]
    /\ th' = [th EXCEPT ![t].pc = "add_remove"]
    /\ UNCHANGED <<pool, heap, gen, gstate, iter_max, pc, root_node,
                   selected_node, hist, parallel_count, table_lock, seqlocals>>

\* add_child: the move leaves untried_moves
TAddChildRemove(t) ==
    /\ At(t, "add_remove")
    /\ LET tn == Last(th[t].node).tn
       IN /\ node_lock[tn] = t
          /\ heap' = [heap EXCEPT ![tn] = TreeNodeRemoveUntried(@, th[t].m)]
          /\ hist' = [hist EXCEPT !.raced =
                         @ \/ th[t].m \notin SeqRange(heap[tn].untried_moves)]
    /\ th' = [th EXCEPT ![t].pc = "add_put"]
    /\ UNCHANGED <<pool, gen, gstate, iter_max, pc, root_node, selected_node,
                   parallel_count, table_lock, node_lock, seqlocals>>

\* add_child: the child is recorded and the lock released; the SearchNode
TAddChildPut(t) ==
    /\ At(t, "add_put")
    /\ LET tn == Last(th[t].node).tn
       IN /\ node_lock[tn] = t
          /\ heap' = [heap EXCEPT ![tn] = TreeNodePutChild(@, th[t].m, th[t].child)]
          /\ node_lock' = [node_lock EXCEPT ![tn] = 0]
    /\ th' = [th EXCEPT ![t].node = SearchNode(th[t].m, @, th[t].child),
                        ![t].pc = "rollout"]
    /\ UNCHANGED <<pool, gen, gstate, iter_max, pc, root_node, selected_node,
                   hist, parallel_count, table_lock, seqlocals>>

\* Rollout
TRollout(t) ==
    /\ At(t, "rollout")
    /\ \E s \in RolloutLoop(th[t].state) :
          th' = [th EXCEPT ![t].state = s, ![t].j = Len(th[t].node),
                           ![t].pc = "update_acq"]
    /\ UNCHANGED <<pool, heap, gen, gstate, iter_max, pc, root_node,
                   selected_node, hist, parallel_count, table_lock, node_lock,
                   seqlocals>>

\* a slip: update does not take the lock of the node
TUpdateAcquireNoLock(t) ==
    /\ At(t, "update_acq")
    /\ th' = [th EXCEPT ![t].pc = "update",
                        ![t].seen = [wins |-> heap[th[t].node[th[t].j].tn].wins,
                                     visits |-> heap[th[t].node[th[t].j].tn].visits]]
    /\ UNCHANGED <<pool, heap, gen, gstate, iter_max, pc, root_node,
                   selected_node, hist, parallel_count, table_lock, node_lock,
                   seqlocals>>

\* Backpropagate: TreeNode.update takes the lock of the node and reads
\* __visits and __wins, the left sides of the two += statements
TUpdateAcquire(t) ==
    /\ At(t, "update_acq")
    /\ node_lock[th[t].node[th[t].j].tn] = 0
    /\ node_lock' = [node_lock EXCEPT ![th[t].node[th[t].j].tn] = t]
    /\ th' = [th EXCEPT ![t].pc = "update",
                        ![t].seen = [wins |-> heap[th[t].node[th[t].j].tn].wins,
                                     visits |-> heap[th[t].node[th[t].j].tn].visits]]
    /\ UNCHANGED <<pool, heap, gen, gstate, iter_max, pc, root_node,
                   selected_node, hist, parallel_count, table_lock, seqlocals>>

\* Backpropagate: update writes the values it read, increased, and releases
\* the lock (release() of a Lock does not look at the holder); then
\* node = node.parent_node, and after the root the next loop test.  The
\* ledger adds up what update was called with.
TUpdate(t) ==
    /\ At(t, "update")
    /\ LET tn == th[t].node[th[t].j].tn
           result == GetResult(th[t].state, heap[tn].state.pjm)
       IN /\ heap' = [heap EXCEPT ![tn] =
                         TreeNodeUpdate([@ EXCEPT !.wins = th[t].seen.wins,
                                                  !.visits = th[t].seen.visits],
                                        result)]
          /\ node_lock' = [node_lock EXCEPT ![tn] = 0]
          /\ hist' = [hist EXCEPT !.ledger[tn] =
                         [wins |-> @.wins + result, visits |-> @.visits + 1]]
    /\ th' = [th EXCEPT ![t] =
                 IF @.j > 1
                 THEN [@ EXCEPT !.j = @ - 1, !.pc = "update_acq",
                                !.seen = Thread0.seen]
                 ELSE LoopTop([@ EXCEPT !.j = 0, !.seen = Thread0.seen], @.i + 1)]
    /\ UNCHANGED <<pool, gen, gstate, iter_max, pc, root_node, selected_node,
                   parallel_count, table_lock, seqlocals>>

\* ---------------------------------------- uct-tree-parallelization.py: uct
\* a uct that goes on when the first thread has ended
TJoinFirst ==
    /\ pc = "join"
    /\ \E t \in Threads : th[t].pc = "done"
    /\ table_lock = 0
    /\ table_lock' = Driver
    /\ pc' = "root_get"
    /\ UNCHANGED <<pool, heap, gen, gstate, iter_max, root_node, selected_node,
                   hist, parallel_count, th, node_lock, seqlocals>>

\* every t.join() has returned; get_node(root_state) takes the table lock
TJoin ==
    /\ pc = "join"
    /\ \A t \in Threads : th[t].pc = "done"
    /\ table_lock = 0
    /\ table_lock' = Driver
    /\ pc' = "root_get"
    /\ UNCHANGED <<pool, heap, gen, gstate, iter_max, root_node, selected_node,
                   hist, parallel_count, th, node_lock, seqlocals>>

\* root_node = SearchNode(tree_node=search_tree.get_node(root_state))
TRootNode ==
    /\ pc = "root_get"
    /\ table_lock = Driver
    /\ pool' = GetNodePool(pool, gen, gstate)
    /\ heap' = GetNodeHeap(pool, heap, gen, gstate)
    /\ gen' = GetNodeGen(pool, gen, gstate)
    /\ node_lock' = GetNodeLocks(pool, gen, node_lock, gstate)
    /\ table_lock' = 0
    /\ root_node' = GetNodeId(pool, gen, gstate)
    /\ pc' = "final"
    /\ UNCHANGED <<gstate, iter_max, selected_node, hist, parallel_count, th,
                   seqlocals>>

\* selected_node = root_node.uct_select_child(0.0), which asserts children
TFinalSelect ==
    /\ pc = "final"
    /\ IF DOMAIN heap[root_node].child_nodes = {}
       THEN /\ pc' = "assert_failed"
            /\ UNCHANGED selected_node
       ELSE /\ \E m \in UctSelectChild(heap, root_node, 0) :
                  selected_node' = [move |-> m, tn |-> heap[root_node].child_nodes[m]]
            /\ pc' = "clean_acq"
    /\ UNCHANGED <<pool, heap, gen, gstate, iter_max, root_node, hist,
                   tpvars, seqlocals>>

\* clean_sub_tree takes the table lock
TCleanAcquire ==
    /\ pc = "clean_acq"
    /\ table_lock = 0
    /\ table_lock' = Driver
    /\ pc' = "clean"
    /\ UNCHANGED <<pool, heap, gen, gstate, iter_max, root_node, selected_node,
                   hist, parallel_count, th, node_lock, seqlocals>>

\* clean_sub_tree under the table lock, and the return
TClean ==
    /\ pc = "clean"
    /\ table_lock = Driver
    /\ pool' = CleanSubTree(pool, heap, selected_node.tn)
    /\ table_lock' = 0
    /\ pc' = "returned"
    /\ UNCHANGED <<heap, gen, gstate, iter_max, root_node, selected_node, hist,
                   parallel_count, th, node_lock, seqlocals>>

\* uct_play_game: state.do_move(m) with the move uct returned; the objects
\* only the finished call referred to are freed
TPlayMove ==
    /\ pc = "returned"
    /\ gstate' = DoMove(gstate, selected_node.move)
    /\ hist' = [hist EXCEPT !.made = <<>>,
                            !.kept = selected_node.tn,
                            !.kept_wins = heap[selected_node.tn].wins,
                            !.kept_visits = heap[selected_node.tn].visits]
    /\ heap' = Collect(pool, heap)
    /\ node_lock' = [id \in DOMAIN heap' |-> node_lock[id]]
    /\ root_node' = <<>>
    /\ th' = [t \in Threads |-> Thread0]
    /\ pc' = "idle"
    /\ UNCHANGED <<pool, gen, iter_max, selected_node, parallel_count,
                   table_lock, seqlocals>>

ThreadStep(t) ==
    \/ TRootAcquire(t)
    \/ TRootGet(t)
    \/ TRootInit(t)
    \/ TSelect(t)
    \/ TExpandAcquire(t)
    \/ TExpandChoose(t)
    \/ TGetNodeAcquire(t)
    \/ TGetNode(t)
    \/ TGetInit(t)
    \/ TAddChildAcquire(t)
    \/ TAddChildRemove(t)
    \/ TAddChildPut(t)
    \/ TRollout(t)
    \/ TUpdateAcquire(t)
    \/ TUpdate(t)

DriverStep ==
    \/ TUctStart
    \/ TJoin
    \/ TRootNode
    \/ TFinalSelect
    \/ TCleanAcquire
    \/ TClean
    \/ TPlayMove

NextTP == DriverStep \/ \E t \in 1..MaxParallel : ThreadStep(t)

SpecTP == InitTP /\ [][NextTP]_vars

\* the scheduler lets every thread that can run, run
SpecTPFair ==
    /\ InitTP
    /\ [][NextTP]_vars
    /\ WF_vars(DriverStep)
    /\ \A t \in 1..MaxParallel : WF_vars(ThreadStep(t))

\* ------------------------------------------------------- uct-pickling.py
\* the number pickle's memo gives an object: each object is written once and
\* referred to by its number afterwards
MemoId(id) == id[1][1] * 100 + id[1][2] * 10 + id[2]

\* a slip: the statistics are not written
PickleNodeBare(n) ==
    [wins |-> 0, visits |-> 1, state |-> n.state,
     child_nodes |-> [m \in DOMAIN n.child_nodes |-> MemoId(n.child_nodes[m])],
     untried_moves |-> n.untried_moves]

\* the pickle of one TreeNode: its fields, the children by their numbers
PickleNode(n) ==
    [wins |-> n.wins, visits |-> n.visits, state |-> n.state,
     child_nodes |-> [m \in DOMAIN n.child_nodes |-> MemoId(n.child_nodes[m])],
     untried_moves |-> n.untried_moves]

\* pickle.dump(self.__pool, f): the dict and every object reachable from it
Pickle(p, h) ==
    LET objs == Closure(h, PoolNodes(p))
    IN [kind |-> "pool",
        pool |-> [k \in DOMAIN p |-> MemoId(p[k])],
        objs |-> [n \in {MemoId(id) : id \in objs} |->
                     PickleNode(h[CHOOSE id \in objs : MemoId(id) = n])]]

\* the new object pickle.load builds for the object numbered n of the file
LoadId(f, g, n) ==
    LET key == Repr(f.objs[n].state)
        before == {n2 \in DOMAIN f.objs : Repr(f.objs[n2].state) = key /\ n2 <= n}
    IN <<key, Made(g, key) + Cardinality(before)>>

\* pickle.load(f): the dict it returns
LoadPool(f, g) == [k \in DOMAIN f.pool |-> LoadId(f, g, f.pool[k])]

\* pickle.load(f): the objects it builds
LoadHeap(f, g) ==
    [id \in {LoadId(f, g, n) : n \in DOMAIN f.objs} |->
        LET n == CHOOSE n2 \in DOMAIN f.objs : LoadId(f, g, n2) = id
            r == f.objs[n]
        IN [wins |-> r.wins, visits |-> r.visits, state |-> r.state,
            child_nodes |-> [m \in DOMAIN r.child_nodes |->
                                LoadId(f, g, r.child_nodes[m])],
            untried_moves |-> r.untried_moves]]

LoadGen(f, g) ==
    LET keys == {Repr(f.objs[n].state) : n \in DOMAIN f.objs}
    IN [k \in DOMAIN g \cup keys |->
           Made(g, k) + Cardinality({n \in DOMAIN f.objs : Repr(f.objs[n].state) = k})]

\* what the file may hold when the program starts: nothing, or something that
\* is not the pickle of a table
BadFiles == {[kind |-> "corrupt"], [kind |-> "truncated"], [kind |-> "other"]}

InitPK ==
    /\ pool = <<>>
    /\ heap = <<>>
    /\ gen = <<>>
    /\ gstate \in {NimState(c) : c \in 1..MaxChipsPK}
    /\ iter_max \in 1..MaxIterPK
    /\ with_tree = TRUE
    /\ pc = "construct"
    /\ should_clean = FALSE
    /\ root_node = <<>>
    /\ it = 0
    /\ node = <<>>
    /\ state = gstate
    /\ selected_node = None
    /\ hist = Hist0
    /\ parallel_count = 1
    /\ th = <<>>
    /\ table_lock = 0
    /\ node_lock = <<>>
    /\ engine = "pickling"
    /\ threads = <<>>
    /\ workers = <<>>
    /\ results = <<>>
    /\ file \in {NoFile} \cup BadFiles
    /\ saved = NotSaved
    /\ start = gstate
    /\ order = <<1, 2, 3>>
    /\ twin = <<>>
    /\ trav = <<>>

pklocals == <<gstate, iter_max, with_tree, should_clean, root_node, it, node,
              state, selected_node, tpvars, lpvars, workers, results, start,
              order, twin, trav>>

\* tree = SearchTree(): the file is loaded if it exists.  pickle.load raises
\* UnpicklingError, a PickleError, on content that is no pickle, and EOFError
\* on a pickle that ends early; only PickleError is caught.  The pickle of
\* another object loads without an error and becomes __pool.
PConstruct ==
    /\ pc = "construct"
    /\ CASE file.kind = "absent" ->
              /\ pc' = "idle"
              /\ UNCHANGED <<pool, heap, gen>>
         [] file.kind = "pool" ->
              /\ pool' = LoadPool(file, gen)
              /\ heap' = LoadHeap(file, gen)
              /\ gen' = LoadGen(file, gen)
              /\ pc' = "idle"
         [] file.kind = "corrupt" ->
              /\ pc' = "idle"
              /\ UNCHANGED <<pool, heap, gen>>
         [] file.kind = "truncated" ->
              /\ pc' = "raised"
              /\ UNCHANGED <<pool, heap, gen>>
         [] file.kind = "other" ->
              /\ pc' = "not_a_table"
              /\ UNCHANGED <<pool, heap, gen>>
    /\ hist' = Hist0
    /\ UNCHANGED <<pklocals, file, saved>>

\* a slip: clean_sub_tree is not overridden, the table is pruned
PCleanPrunes == Clean

\* root_node.clean_sub_tree(selected_node, search_tree) does nothing; return
PClean ==
    /\ pc = "clean"
    /\ pc' = "returned"
    /\ UNCHANGED <<pool, heap, gen, hist, pklocals, file, saved>>

\* the game is over: tree.dump(), and the program ends
PDump ==
    /\ pc = "idle"
    /\ GetMoves(gstate) = <<>>
    /\ file' = Pickle(pool, heap)
    /\ saved' = [runs |-> saved.runs + 1, pool |-> pool, heap |-> heap]
    /\ pc' = "ended"
    /\ UNCHANGED <<pool, heap, gen, hist, pklocals>>

\* the program is run again: a new process, with nothing of the old one but
\* the file
PRun ==
    /\ pc = "ended"
    /\ saved.runs < MaxRuns
    /\ pool' = <<>>
    /\ heap' = <<>>
    /\ gstate' = start
    /\ state' = start
    /\ root_node' = <<>>
    /\ selected_node' = None
    /\ should_clean' = FALSE
    /\ it' = 0
    /\ node' = <<>>
    /\ hist' = Hist0
    /\ pc' = "construct"
    /\ UNCHANGED <<gen, iter_max, with_tree, tpvars, lpvars, workers, results,
                   start, file, saved, order, twin, trav>>

NextPK ==
    \/ PConstruct
    \/ UctStart
    \/ Select
    \/ Expand
    \/ Rollout
    \/ Backpropagate
    \/ FinalSelect
    \/ PClean
    \/ PlayMove
    \/ PDump
    \/ PRun

SpecPK == InitPK /\ [][NextPK]_vars

\* ---------------------------------------------- uct-root-parallelization.py
\* The SearchWorkers are processes: they share no memory, and the driver waits
\* in join() until each has ended.  A worker's steps commute with those of
\* every other, so the model runs the workers one after the other, in the
\* variables of common.uct.
InitRP ==
    /\ pool = <<>>
    /\ heap = <<>>
    /\ gen = <<>>
    /\ gstate \in {NimState(c) : c \in 1..MaxChipsRP}
    /\ iter_max \in 1..MaxIterRP
    /\ with_tree = FALSE
    /\ pc = "idle"
    /\ should_clean = FALSE
    /\ root_node = <<>>
    /\ it = 0
    /\ node = <<>>
    /\ state = gstate
    /\ selected_node = None
    /\ hist = Hist0
    /\ parallel_count \in 1..MaxParallel
    /\ th = <<>>
    /\ table_lock = 0
    /\ node_lock = <<>>
    /\ engine = "root"
    /\ threads = <<>>
    /\ workers = <<>>
    /\ results = <<>>
    /\ file = NoFile
    /\ saved = NotSaved
    /\ start = gstate
    /\ order = <<1, 2, 3>>
    /\ twin = <<>>
    /\ trav = <<>>

rpfixed == <<gstate, iter_max, with_tree, tpvars, lpvars, file, saved, start,
             order, twin, trav>>

\* the worker whose run() is next: the first started one that has not ended
Started == {w \in DOMAIN workers : workers[w].status = "started"}

Running == {w \in DOMAIN workers : workers[w].status = "running"}

\* the positions of common.uct, called by run()
InWorker == {"select", "expand", "rollout", "backprop", "final", "clean"}

\* uct: the workers are created and started; the driver goes on to join them
RUctStart ==
    /\ pc = "idle"
    /\ GetMoves(gstate) # <<>>
    /\ workers' = [w \in 1..parallel_count |-> [status |-> "started", exitcode |-> 0, queue |-> <<>>]]
    /\ results' = <<>>
    /\ selected_node' = None
    /\ hist' = [hist EXCEPT !.searches = @ + 1, !.made = <<>>]
    /\ pc' = "join"
    /\ UNCHANGED <<pool, heap, gen, should_clean, root_node, it, node, state,
                   rpfixed>>

\* run: tree = SearchTree(), and common.uct(root_state, iter_max / P, tree)
\* up to its loop
WUctStart ==
    /\ pc = "join"
    /\ Running = {}
    /\ \E w \in Started :
          /\ \A w2 \in Started : w <= w2
          /\ workers' = [workers EXCEPT ![w].status = "running"]
    /\ LET rn == GetNodeId(<<>>, gen, gstate)
       IN /\ should_clean' = TRUE
          /\ pool' = GetNodePool(<<>>, gen, gstate)
          /\ heap' = GetNodeHeap(<<>>, <<>>, gen, gstate)
          /\ gen' = GetNodeGen(<<>>, gen, gstate)
          /\ root_node' = rn
          /\ hist' = [hist EXCEPT !.visits0 = 1, !.full0 = FALSE, !.made = rn,
                                  !.phases = <<0, 0, 0, 0>>]
    /\ it' = 0
    /\ node' = <<>>
    /\ state' = gstate
    /\ selected_node' = None
    /\ pc' = IF Share > 0 THEN "select" ELSE "final"
    /\ UNCHANGED <<results, rpfixed>>

\* common.uct in a worker: Backpropagate, and the step of the for loop
WBackpropagate ==
    /\ pc = "backprop"
    /\ heap' = BackpropLoop(heap, node, state)
    /\ node' = <<>>
    /\ it' = it + 1
    /\ pc' = IF it + 1 < Share THEN "select" ELSE "final"
    /\ hist' = [hist EXCEPT !.made = <<>>, !.phases[4] = @ + 1]
    /\ UNCHANGED <<pool, gen, should_clean, root_node, state, selected_node,
                   workers, results, rpfixed>>

\* common.uct in a worker: clean_sub_tree does nothing; return
WClean ==
    /\ pc = "clean"
    /\ pc' = "returned"
    /\ UNCHANGED <<pool, heap, gen, should_clean, root_node, it, node, state,
                   selected_node, hist, workers, results, rpfixed>>

\* run: values, the value() of each child of the root, as wins over visits
WorkerValues(h, rn) ==
    [m \in DOMAIN h[rn].child_nodes |->
        [wins |-> h[h[rn].child_nodes[m]].wins,
         visits |-> h[h[rn].child_nodes[m]].visits]]

\* run: the values and the size of the tree are put on the queue, and the
\* process ends
WReport ==
    /\ pc = "returned"
    /\ \E w \in Running :
          workers' = [workers EXCEPT
              ![w] = [status |-> "ended", exitcode |-> 0,
                      queue |-> <<[values |-> WorkerValues(heap, root_node),
                                   size |-> Cardinality(DOMAIN pool),
                                   iters |-> it]>>]]
    /\ pc' = "join"
    /\ UNCHANGED <<pool, heap, gen, should_clean, root_node, it, node, state,
                   selected_node, hist, results, rpfixed>>

\* run: the assertion of the final selection fails; the process ends with
\* the AssertionError, exit code 1, and nothing is put on the queue
WFail ==
    /\ pc = "assert_failed"
    /\ \E w \in Running :
          workers' = [workers EXCEPT ![w].status = "ended", ![w].exitcode = 1]
    /\ pc' = "join"
    /\ UNCHANGED <<pool, heap, gen, should_clean, root_node, it, node, state,
                   selected_node, hist, results, rpfixed>>

\* the process of a worker is ended by a signal while it runs
WKilled ==
    /\ pc \in InWorker
    /\ \E w \in Running :
          workers' = [workers EXCEPT ![w].status = "ended", ![w].exitcode = -9]
    /\ pc' = "join"
    /\ UNCHANGED <<pool, heap, gen, should_clean, root_node, it, node, state,
                   selected_node, hist, results, rpfixed>>

\* every w.join() has returned
RJoin ==
    /\ pc = "join"
    /\ workers # <<>>
    /\ \A w \in DOMAIN workers : workers[w].status = "ended"
    /\ pc' = "get_result"
    /\ UNCHANGED <<pool, heap, gen, should_clean, root_node, it, node, state,
                   selected_node, hist, workers, results, rpfixed>>

\* results: the next w.get_result(); queue.get() waits while the queue is
\* empty
RGetResult ==
    /\ pc = "get_result"
    /\ Len(results) < Len(workers)
    /\ LET w == Len(results) + 1
       IN /\ workers[w].queue # <<>>
          /\ results' = Append(results, Head(workers[w].queue))
          /\ workers' = [workers EXCEPT ![w].queue = Tail(@)]
    /\ UNCHANGED <<pool, heap, gen, pc, should_clean, root_node, it, node,
                   state, selected_node, hist, rpfixed>>

\* the moves that some result has a value for
Reported(rs) == UNION {DOMAIN rs[i].values : i \in 1..Len(rs)}

\* the largest number of visits a value of a worker can have
MaxVisits == MaxIterRP + 1

\* values[move], the sum of the values of the move, in units of
\* 1 / (WinUnit * Factorial(MaxVisits))
RECURSIVE SumValues(_, _)
SumValues(rs, move) ==
    IF rs = <<>> THEN 0
    ELSE (IF move \in DOMAIN Head(rs).values
          THEN Head(rs).values[move].wins
                   * (Factorial(MaxVisits) \div Head(rs).values[move].visits)
          ELSE 0)
         + SumValues(Tail(rs), move)

\* a slip: min() for max()
ArgMaxValuesMin(rs) ==
    {m \in Reported(rs) :
        \A m2 \in Reported(rs) : SumValues(rs, m) <= SumValues(rs, m2)}

\* max(values.items(), key = value)[0]: the moves it may return; among equal
\* sums the order of dict.items() decides
ArgMaxValues(rs) ==
    {m \in Reported(rs) :
        \A m2 \in Reported(rs) : SumValues(rs, m2) <= SumValues(rs, m)}

\* values are summed and the move with the largest sum is returned; max()
\* raises ValueError when no move has a value
RReturn ==
    /\ pc = "get_result"
    /\ Len(results) = Len(workers)
    /\ IF Reported(results) = {}
       THEN /\ pc' = "raised"
            /\ UNCHANGED selected_node
       ELSE /\ \E m \in ArgMaxValues(results) :
                  selected_node' = [move |-> m, tn |-> <<>>]
            /\ pc' = "done"
    /\ UNCHANGED <<pool, heap, gen, should_clean, root_node, it, node, state,
                   hist, workers, results, rpfixed>>

\* uct_play_game: state.do_move(m) with the move uct returned
RPlayMove ==
    /\ pc = "done"
    /\ gstate' = DoMove(gstate, selected_node.move)
    /\ pool' = <<>>
    /\ heap' = <<>>
    /\ root_node' = <<>>
    /\ workers' = <<>>
    /\ results' = <<>>
    /\ hist' = [hist EXCEPT !.made = <<>>]
    /\ pc' = "idle"
    /\ UNCHANGED <<gen, iter_max, with_tree, should_clean, it, node, state,
                   selected_node, tpvars, lpvars, file, saved, start, order,
                   twin, trav>>

NextRP ==
    \/ RUctStart
    \/ WUctStart
    \/ Select
    \/ Expand
    \/ Rollout
    \/ WBackpropagate
    \/ FinalSelect
    \/ WClean
    \/ WReport
    \/ WFail
    \/ WKilled
    \/ RJoin
    \/ RGetResult
    \/ RReturn
    \/ RPlayMove

SpecRP == InitRP /\ [][NextRP]_vars

\* every process that can run, runs
SpecRPFair == InitRP /\ [][NextRP]_vars /\ WF_vars(NextRP)

\* ------------------------------- common.uct, run twice on the same draws
\* random.random() gives a number in [0, 1); the model draws it in sixths
DrawUnit == 6

Draws == 0..(DrawUnit - 1)

\* random.choice(seq) = seq[int(random() * len(seq))]
Choice(q, draw) == q[(draw * Len(q)) \div DrawUnit + 1]

\* the place of a move in the order of dict.items()
Pos(o, m) == CHOOSE i \in 1..Len(o) : o[i] = m

\* a slip: among equal scores any item is taken, whatever the order
MaxItemAny(h, tn, constant, o) == UctSelectChild(h, tn, constant)

\* max(items, key = ucb): the first item of the largest score
MaxItem(h, tn, constant, o) ==
    {m \in UctSelectChild(h, tn, constant) :
        \A m2 \in UctSelectChild(h, tn, constant) : Pos(o, m) <= Pos(o, m2)}

\* the Select loop
RECURSIVE DSelectLoop(_, _, _)
DSelectLoop(h, nd, o) ==
    LET tn == Last(nd).tn
    IN IF h[tn].untried_moves = <<>> /\ DOMAIN h[tn].child_nodes # {}
       THEN UNION {DSelectLoop(h, SearchNode(m, nd, h[tn].child_nodes[m]), o) :
                      m \in MaxItem(h, tn, 1, o)}
       ELSE {nd}

\* Expand, from the chain nd, with one draw
DExpand(r, nd, draw) ==
    LET tn == Last(nd).tn
        st == Clone(r.heap[tn].state)
    IN IF r.heap[tn].untried_moves # <<>>
       THEN LET m == Choice(r.heap[tn].untried_moves, draw)
                s == DoMove(st, m)
                c == GetNodeId(r.pool, r.gen, s)
                h1 == GetNodeHeap(r.pool, r.heap, r.gen, s)
            IN [pool |-> GetNodePool(r.pool, r.gen, s),
                heap |-> [h1 EXCEPT ![tn] = TreeNodeAddChild(@, m, c)],
                gen |-> GetNodeGen(r.pool, r.gen, s),
                node |-> SearchNode(m, nd, c),
                state |-> s]
       ELSE [pool |-> r.pool, heap |-> r.heap, gen |-> r.gen, node |-> nd,
             state |-> st]

\* Rollout, with one draw for each move
RECURSIVE DRollout(_, _)
DRollout(s, draws) ==
    IF GetMoves(s) = <<>> THEN s
    ELSE DRollout(DoMove(s, Choice(GetMoves(s), Head(draws))), Tail(draws))

\* one iteration of the loop of uct, from the chain nd that Select ended with
DIterate(r, nd, draw, draws) ==
    LET e == DExpand(r, nd, draw)
    IN [r EXCEPT !.pool = e.pool,
                 !.heap = BackpropLoop(e.heap, e.node, DRollout(e.state, draws)),
                 !.gen = e.gen,
                 !.it = @ + 1]

\* the states of the run after one iteration on the given draws
DIterations(r, o, draw, draws) ==
    {DIterate(r, nd, draw, draws) :
        nd \in DSelectLoop(r.heap, SearchNode(0, <<>>, r.root_node), o)}

\* uct up to the loop
DEnter(r, gs) ==
    [r EXCEPT !.pool = GetNodePool(r.pool, r.gen, gs),
              !.heap = GetNodeHeap(r.pool, r.heap, r.gen, gs),
              !.gen = GetNodeGen(r.pool, r.gen, gs),
              !.root_node = GetNodeId(r.pool, r.gen, gs),
              !.it = 0,
              !.selected_node = None]

\* the final selection and clean_sub_tree: the states of the run at return
DReturns(r, o) ==
    {[r EXCEPT !.selected_node = [move |-> m, tn |-> r.heap[r.root_node].child_nodes[m]],
               !.pool = CleanSubTree(r.pool, r.heap,
                                     r.heap[r.root_node].child_nodes[m])] :
        m \in MaxItem(r.heap, r.root_node, 0, o)}

\* uct_play_game after the return: the objects of the finished call are freed
DLeave(r) ==
    [r EXCEPT !.heap = Collect(r.pool, r.heap), !.root_node = <<>>]

\* the run held in the variables of common.uct
Run1 ==
    [pool |-> pool, heap |-> heap, gen |-> gen, root_node |-> root_node,
     it |-> it, selected_node |-> selected_node]

\* the moves of a game: the permutations of them are the orders of items()
Orders ==
    {<<1, 2, 3>>, <<1, 3, 2>>, <<2, 1, 3>>, <<2, 3, 1>>, <<3, 1, 2>>, <<3, 2, 1>>}

InitDet ==
    /\ pool = <<>>
    /\ heap = <<>>
    /\ gen = <<>>
    /\ gstate \in {NimState(c) : c \in 1..MaxChipsDet}
    /\ iter_max \in 1..MaxIterDet
    /\ with_tree = TRUE
    /\ pc = "idle"
    /\ should_clean = TRUE
    /\ root_node = <<>>
    /\ it = 0
    /\ node = <<>>
    /\ state = gstate
    /\ selected_node = None
    /\ hist = Hist0
    /\ parallel_count = 1
    /\ th = <<>>
    /\ table_lock = 0
    /\ node_lock = <<>>
    /\ engine = "twice"
    /\ threads = <<>>
    /\ workers = <<>>
    /\ results = <<>>
    /\ file = NoFile
    /\ saved = NotSaved
    /\ start = gstate
    /\ order \in Orders
    /\ twin = Run1
    /\ trav = <<>>

detfixed == <<iter_max, with_tree, should_clean, node, state, hist, tpvars,
              lpvars, workers, results, file, saved, start, order, trav>>

\* the run r becomes the run of the variables
Becomes(r) ==
    /\ pool' = r.pool
    /\ heap' = r.heap
    /\ gen' = r.gen
    /\ root_node' = r.root_node
    /\ it' = r.it
    /\ selected_node' = r.selected_node

\* both runs are called with the state of the game
DUctStart ==
    /\ pc = "idle"
    /\ GetMoves(gstate) # <<>>
    /\ Becomes(DEnter(Run1, gstate))
    /\ twin' = DEnter(twin, gstate)
    /\ pc' = "select"
    /\ UNCHANGED <<gstate, detfixed>>

\* both runs go through one iteration, on the same draws
DIteration ==
    /\ pc = "select"
    /\ \E draw \in Draws : \E draws \in [1..MaxChipsDet -> Draws] :
          /\ \E r \in DIterations(Run1, order, draw, draws) : Becomes(r)
          /\ twin' \in DIterations(twin, order, draw, draws)
    /\ pc' = IF it + 1 < iter_max THEN "select" ELSE "final"
    /\ UNCHANGED <<gstate, detfixed>>

\* both runs select, prune and return
DFinalSelect ==
    /\ pc = "final"
    /\ \E r \in DReturns(Run1, order) : Becomes(r)
    /\ twin' \in DReturns(twin, order)
    /\ pc' = "returned"
    /\ UNCHANGED <<gstate, detfixed>>

\* uct_play_game: state.do_move(m) with the move the first run returned
DPlayMove ==
    /\ pc = "returned"
    /\ gstate' = DoMove(gstate, selected_node.move)
    /\ Becomes(DLeave(Run1))
    /\ twin' = DLeave(twin)
    /\ pc' = "idle"
    /\ UNCHANGED detfixed

NextDet ==
    \/ DUctStart
    \/ DIteration
    \/ DFinalSelect
    \/ DPlayMove

SpecDet == InitDet /\ [][NextDet]_vars

\* ------------------------------ a game whose positions repeat: the table
\* A GameState of two places, where move 1 goes to the other place and move 2
\* stays; do_move turns player_just_moved, so a position comes back after two
\* moves
RingState(pos) == [pos |-> pos, pjm |-> 2]

RingDoMove(s, move) ==
    [pos |-> IF move = 1 THEN (s.pos + 1) % MaxPos ELSE s.pos, pjm |-> 3 - s.pjm]

RingGetMoves(s) == <<1, 2>>

\* str(state), the key of the table
RingRepr(s) == <<s.pos, s.pjm>>

\* TreeNode(state) for a state of this game
RingTreeNode(s) ==
    [wins |-> 0, visits |-> 1, state |-> s, child_nodes |-> <<>>,
     untried_moves |-> RingGetMoves(s)]

\* the object of a key: the table is never pruned before this pruning, so
\* each key has had one object
RingId(s) == <<RingRepr(s), 1>>

\* the nodes the Select loop can end at: it goes down from the root through
\* nodes without untried moves, to any child (the statistics are left open)
RECURSIVE SelectEnds(_, _, _)
SelectEnds(h, S, n) ==
    LET T == S \cup UNION {{h[id].child_nodes[m] : m \in DOMAIN h[id].child_nodes} :
                              id \in {x \in S : h[x].untried_moves = <<>>}}
    IN IF T = S \/ n = 0 THEN S ELSE SelectEnds(h, T, n - 1)

\* one call of traverse: the node, and the children the for loop has yet to
\* go to, in the order of child_nodes().values()
Frame(h, id) ==
    [id |-> id,
     rest |-> LET ms == DOMAIN h[id].child_nodes
              IN [i \in 1..Cardinality(ms) |->
                     h[id].child_nodes[CHOOSE m \in ms :
                         Cardinality({m2 \in ms : m2 <= m}) = i]]]

InitRing ==
    /\ pool = (RingRepr(RingState(0)) :> RingId(RingState(0)))
    /\ heap = (RingId(RingState(0)) :> RingTreeNode(RingState(0)))
    /\ gen = (RingRepr(RingState(0)) :> 1)
    /\ gstate = RingState(0)
    /\ iter_max = 1
    /\ with_tree = TRUE
    /\ pc = "search"
    /\ should_clean = TRUE
    /\ root_node = RingId(RingState(0))
    /\ it = 0
    /\ node = <<>>
    /\ state = gstate
    /\ selected_node = None
    /\ hist = Hist0
    /\ parallel_count = 1
    /\ th = <<>>
    /\ table_lock = 0
    /\ node_lock = <<>>
    /\ engine = "ring"
    /\ threads = <<>>
    /\ workers = <<>>
    /\ results = <<>>
    /\ file = NoFile
    /\ saved = NotSaved
    /\ start = gstate
    /\ order = <<1, 2, 3>>
    /\ twin = <<>>
    /\ trav = [stack |-> <<>>, ignore_set |-> {}, calls |-> <<>>]

ringfixed == <<gstate, iter_max, with_tree, should_clean, root_node, it, node,
               state, hist, tpvars, lpvars, workers, results, file, saved,
               start, order, twin>>

\* Expand, at a node the Select loop can end at: get_node and add_child
RExpand ==
    /\ pc = "search"
    /\ \E id \in SelectEnds(heap, {root_node}, MaxPos * 2) :
       \E m \in SeqRange(heap[id].untried_moves) :
          LET s == RingDoMove(heap[id].state, m)
              h1 == IF RingRepr(s) \in DOMAIN pool THEN heap
                    ELSE (RingId(s) :> RingTreeNode(s)) @@ heap
          IN /\ pool' = IF RingRepr(s) \in DOMAIN pool THEN pool
                        ELSE (RingRepr(s) :> RingId(s)) @@ pool
             /\ gen' = (RingRepr(s) :> 1) @@ gen
             /\ heap' = [h1 EXCEPT ![id] = TreeNodeAddChild(@, m, RingId(s))]
    /\ UNCHANGED <<pc, selected_node, trav, ringfixed>>

\* the final selection, and clean_sub_tree up to the first call of traverse
RCleanStart ==
    /\ pc = "search"
    /\ \E m \in DOMAIN heap[root_node].child_nodes :
          /\ selected_node' = [move |-> m, tn |-> heap[root_node].child_nodes[m]]
          /\ trav' = [stack |-> <<Frame(heap, heap[root_node].child_nodes[m])>>,
                      ignore_set |-> {},
                      calls |-> [id \in DOMAIN heap |-> 0]]
    /\ pc' = "traverse"
    /\ UNCHANGED <<pool, heap, gen, ringfixed>>

\* traverse: c.traverse(fun) for the next child
RTraverseCall ==
    /\ pc = "traverse"
    /\ Last(trav.stack).rest # <<>>
    /\ Len(trav.stack) < RecursionLimit
    /\ trav' = [trav EXCEPT !.stack =
                   Append([@ EXCEPT ![Len(@)].rest = Tail(@)],
                          Frame(heap, Head(Last(trav.stack).rest)))]
    /\ UNCHANGED <<pool, heap, gen, pc, selected_node, ringfixed>>

\* traverse: the call that passes the recursion limit raises RuntimeError
RTraverseRaise ==
    /\ pc = "traverse"
    /\ Last(trav.stack).rest # <<>>
    /\ Len(trav.stack) = RecursionLimit
    /\ pc' = "raised"
    /\ UNCHANGED <<pool, heap, gen, selected_node, trav, ringfixed>>

\* traverse: fun(self) after the loop, and the return to the caller
RTraverseFun ==
    /\ pc = "traverse"
    /\ Last(trav.stack).rest = <<>>
    /\ trav' = [stack |-> SubSeq(trav.stack, 1, Len(trav.stack) - 1),
                ignore_set |-> trav.ignore_set \cup {Last(trav.stack).id},
                calls |-> [trav.calls EXCEPT ![Last(trav.stack).id] = @ + 1]]
    /\ pc' = IF Len(trav.stack) = 1 THEN "delete" ELSE "traverse"
    /\ UNCHANGED <<pool, heap, gen, selected_node, ringfixed>>

\* clean_sub_tree: the entries whose node is not in ignore_set are deleted
RDelete ==
    /\ pc = "delete"
    /\ pool' = [k \in {k2 \in DOMAIN pool : pool[k2] \in trav.ignore_set} |-> pool[k]]
    /\ pc' = "returned"
    /\ UNCHANGED <<heap, gen, selected_node, trav, ringfixed>>

NextRing ==
    \/ RExpand
    \/ RCleanStart
    \/ RTraverseCall
    \/ RTraverseRaise
    \/ RTraverseFun
    \/ RDelete

SpecRing == InitRing /\ [][NextRing]_vars

\* ------------------------------------------------------- the engines
\* a run of the sequential, the leaf-parallel or the tree-parallel engine,
\* the ones with the pruning SearchTree
InitAll == Init \/ InitLP \/ InitTP

NextAll ==
    \/ engine = "common" /\ Next
    \/ engine = "leaf" /\ NextLP
    \/ engine = "tree" /\ NextTP

SpecAll == InitAll /\ [][NextAll]_vars

\* a run of the persistent or of the root-parallel engine, the ones whose
\* SearchTree does not prune
InitKeep == InitPK \/ InitRP

NextKeep ==
    \/ engine = "pickling" /\ NextPK
    \/ engine = "root" /\ NextRP

SpecKeep == InitKeep /\ [][NextKeep]_vars

\* a run of one of the five programs
InitEvery == InitAll \/ InitKeep

NextEvery == NextAll \/ NextKeep

SpecEvery == InitEvery /\ [][NextEvery]_vars

\* ================================================================ claims
\* C1: in the sequential engine every TreeNode of the table has untried_moves
\* and the keys of its children disjoint, and together they are the legal
\* moves of the node's state.
C1_UntriedChildrenPartition ==
    \A k \in DOMAIN pool :
        LET n == heap[pool[k]]
        IN /\ SeqRange(n.untried_moves) \cap DOMAIN n.child_nodes = {}
           /\ SeqRange(n.untried_moves) \cup DOMAIN n.child_nodes
                  = SeqRange(GetMoves(n.state))

\* a node with tried and untried moves, in a tree that was pruned before
C1_Witness ==
    /\ pc = "select"
    /\ it >= 1
    /\ hist.searches >= 2
    /\ \E k \in DOMAIN pool :
          /\ heap[pool[k]].untried_moves # <<>>
          /\ DOMAIN heap[pool[k]].child_nodes # {}

\* C2: in the sequential, the leaf-parallel and the tree-parallel engine every
\* TreeNode has visits >= 1 and 0 <= wins <= visits, so that value() is in
\* [0, 1], at every moment; a node just constructed has visits = 1 and
\* wins = 0.
C2_VisitsWinsBounds ==
    /\ \A id \in DOMAIN heap :
          /\ heap[id].visits >= 1
          /\ 0 <= heap[id].wins
          /\ heap[id].wins <= heap[id].visits * WinUnit
          /\ 0 <= Value(heap[id])
          /\ Value(heap[id]) <= UcbScale
    /\ (hist.made # <<>> /\ pc \in {"select", "rollout"}) =>
          /\ heap[hist.made].visits = 1
          /\ heap[hist.made].wins = 0

\* a node updated several times, once with a mean result strictly between 0
\* and 1
C2_Witness ==
    /\ engine = "leaf"
    /\ \E id \in DOMAIN heap : /\ heap[id].wins % WinUnit # 0
                               /\ heap[id].wins > WinUnit
                               /\ heap[id].visits >= 3

\* C5: after clean_sub_tree the entries of the table are the nodes reachable
\* from the chosen child's node by child links, the chosen node included; the
\* old root is gone.
C5_CleanKeepsReachable ==
    (pc = "returned" /\ should_clean) =>
        /\ PoolNodes(pool) = Closure(heap, {selected_node.tn})
        /\ selected_node.tn \in PoolNodes(pool)
        /\ root_node \notin PoolNodes(pool)

\* a prune that keeps the chosen node with a descendant and drops a sibling
C5_Witness ==
    /\ pc = "returned"
    /\ should_clean
    /\ Cardinality(DOMAIN pool) >= 2
    /\ Cardinality(DOMAIN heap[root_node].child_nodes) >= 2

\* C6: every TreeNode of the table is stored under the key of its own state,
\* and each child link of a node of the table is the node stored under the key
\* of the state the move leads to.
C6_ChildLinksInTable ==
    \A k \in DOMAIN pool :
        LET n == heap[pool[k]]
        IN /\ Repr(n.state) = k
           /\ \A m \in DOMAIN n.child_nodes :
                 LET ck == Repr(DoMove(n.state, m))
                 IN ck \in DOMAIN pool /\ pool[ck] = n.child_nodes[m]

\* a child link to the second node built for a key whose first node was pruned
C6_Witness ==
    \E k \in DOMAIN pool : \E m \in DOMAIN heap[pool[k]].child_nodes :
        heap[pool[k]].child_nodes[m][2] >= 2

\* C7: the move uct returns is a key of the root's children and no child of
\* the root has a higher mean value wins/visits than its child.
C7_ReturnsBestMean ==
    (pc \in {"clean", "returned"}) =>
        LET cs == heap[root_node].child_nodes
            best == heap[selected_node.tn]
        IN /\ selected_node.move \in DOMAIN cs
           /\ cs[selected_node.move] = selected_node.tn
           /\ \A m \in DOMAIN cs :
                 heap[cs[m]].wins * best.visits <= best.wins * heap[cs[m]].visits

\* a return where some child of the root has a lower mean value
C7_Witness ==
    /\ pc = "returned"
    /\ \E m \in DOMAIN heap[root_node].child_nodes :
          LET c == heap[heap[root_node].child_nodes[m]]
              best == heap[selected_node.tn]
          IN c.wins * best.visits < best.wins * c.visits

\* C9: the sequential driver runs iter_max iterations, each Select, Expand,
\* Rollout, Backpropagate in this order, and the root's visits grow by one per
\* iteration, by iter_max over the call.
C9_ExactIterations ==
    /\ pc = "select" =>
          it < iter_max /\ hist.phases = <<it, it, it, it>>
    /\ pc = "expand" =>
          it < iter_max /\ hist.phases = <<it + 1, it, it, it>>
    /\ pc = "rollout" =>
          it < iter_max /\ hist.phases = <<it + 1, it + 1, it, it>>
    /\ pc = "backprop" =>
          it < iter_max /\ hist.phases = <<it + 1, it + 1, it + 1, it>>
    /\ pc \in {"select", "expand", "rollout", "backprop"} =>
          heap[root_node].visits = hist.visits0 + it
    /\ pc \in {"final", "clean", "returned"} =>
          /\ it = iter_max
          /\ hist.phases = <<iter_max, iter_max, iter_max, iter_max>>
          /\ heap[root_node].visits = hist.visits0 + iter_max

\* the end of a search that began on a subtree expanded down to the terminals
C9_Witness ==
    /\ pc = "final"
    /\ hist.full0
    /\ iter_max >= 2
    /\ heap[root_node].visits = hist.visits0 + iter_max

\* C10: with one pruning tree passed to every call, the table holds after a
\* search the node of the state the returned move leads to, and the root of
\* the next search is this node with the wins and visits it had.
C10_TreeReuse ==
    /\ (pc = "returned" /\ with_tree) =>
          LET ck == Repr(DoMove(gstate, selected_node.move))
          IN ck \in DOMAIN pool /\ pool[ck] = selected_node.tn
    /\ (pc = "select" /\ it = 0 /\ with_tree /\ hist.searches >= 2) =>
          /\ root_node = hist.kept
          /\ heap[root_node].wins = hist.kept_wins
          /\ heap[root_node].visits = hist.kept_visits

\* a second search that starts on a root visited in the first one
C10_Witness ==
    /\ pc = "select"
    /\ it = 0
    /\ with_tree
    /\ hist.searches >= 2
    /\ heap[root_node].visits >= 3
    /\ heap[root_node].wins >= 1

\* the positions of a search and of the game loop around it
InSearch == {"idle", "join", "select", "expand", "rollout", "backprop",
             "final", "clean", "returned", "assert_failed"}

\* a step in which the SearchTree is the same object before and after: not
\* the start of a program, and not run() building its tree
SameTree ==
    /\ pc \in InSearch
    /\ pc' \in InSearch
    /\ ~(engine = "root" /\ pc = "join")

\* C11: with the persistent and with the root-parallel SearchTree no step of a
\* search removes an entry of the table: each key stays, with the same node,
\* whose visits do not decrease, so the size of the table does not decrease.
C11_NoEntryRemoved ==
    [][SameTree =>
          /\ \A k \in DOMAIN pool :
                /\ k \in DOMAIN pool'
                /\ pool'[k] = pool[k]
                /\ heap'[pool[k]].visits >= heap[pool[k]].visits
          /\ Cardinality(DOMAIN pool') >= Cardinality(DOMAIN pool)]_vars

\* the return of a search on a table that still has the root and a child of
\* the root that was not selected
C11_Witness ==
    /\ engine \in {"pickling", "root"}
    /\ pc = "returned"
    /\ Repr(gstate) \in DOMAIN pool
    /\ \E m \in DOMAIN heap[root_node].child_nodes :
          /\ m # selected_node.move
          /\ heap[root_node].child_nodes[m] \in PoolNodes(pool)

\* the value a result has for a move, wins over visits; 0 over 1 if it has none
ValueIn(r, move) ==
    IF move \in DOMAIN r.values THEN r.values[move] ELSE [wins |-> 0, visits |-> 1]

\* S(move) as a fraction: the product of the visits is the denominator
RECURSIVE SDen(_, _)
SDen(rs, move) ==
    IF rs = <<>> THEN 1 ELSE ValueIn(Head(rs), move).visits * SDen(Tail(rs), move)

RECURSIVE SNum(_, _)
SNum(rs, move) ==
    IF rs = <<>> THEN 0
    ELSE ValueIn(Head(rs), move).wins * SDen(Tail(rs), move)
             + SNum(Tail(rs), move) * ValueIn(Head(rs), move).visits

\* S(m1) <= S(m2)
SLeq(rs, m1, m2) == SNum(rs, m1) * SDen(rs, m2) <= SNum(rs, m2) * SDen(rs, m1)

C12_AtReturn ==
    (engine = "root" /\ pc = "done") =>
        /\ Len(results) = parallel_count
        /\ \A i \in 1..Len(results) :
              /\ results[i].iters = iter_max \div parallel_count
              /\ results[i].size <= results[i].iters + 1
        /\ \E i \in 1..Len(results) : selected_node.move \in DOMAIN results[i].values
        /\ selected_node.move \in SeqRange(GetMoves(gstate))
        /\ \A m \in SeqRange(GetMoves(gstate)) :
              SLeq(results, m, selected_node.move)

C12_AtReport ==
    (engine = "root" /\ pc = "returned") =>
        \E w \in DOMAIN workers :
            /\ workers[w].status = "running"
            /\ workers'[w].queue # <<>>
            /\ LET vs == workers'[w].queue[1].values
                   cs == heap[GetNodePool(pool, gen, gstate)[Repr(gstate)]].child_nodes
               IN /\ DOMAIN vs = DOMAIN cs
                  /\ \A m \in DOMAIN cs : /\ vs[m].wins = heap[cs[m]].wins
                                          /\ vs[m].visits = heap[cs[m]].visits

\* C12: root-parallel uct returns a move whose sum S over the workers of the
\* values of the root's child for the move is largest; every worker searched a
\* tree of its own for iter_max div P iterations and reports the values of
\* the children of its root, a worker without the move counts 0, and the
\* move returned is one some worker reported.
C12_ReturnsArgMaxSum == []C12_AtReturn /\ [][C12_AtReport]_vars

\* a return with two workers, one of which has no value for some move another
\* worker reported, and with a move of a smaller sum than the returned one
C12_Witness ==
    /\ engine = "root"
    /\ pc = "done"
    /\ parallel_count >= 2
    /\ \E m \in Reported(results) : \E i \in 1..Len(results) :
          m \notin DOMAIN results[i].values
    /\ \E m \in Reported(results) : ~SLeq(results, selected_node.move, m)

\* a worker's process has ended without a result on its queue
WorkerFailed ==
    \E w \in DOMAIN workers :
        workers[w].status = "ended" /\ workers[w].exitcode # 0

\* C13: when a root-parallel worker has failed, the search fails as a whole:
\* uct ends with an error; it neither returns a move nor waits forever.
C13_FailedWorkerFailsSearch ==
    (engine = "root" /\ WorkerFailed) ~> (pc = "raised")

\* the driver waits in queue.get() for the result of a worker that has ended
\* without putting one
RWaitsForever ==
    /\ engine = "root"
    /\ pc = "get_result"
    /\ Len(results) < Len(workers)
    /\ workers[Len(results) + 1].status = "ended"
    /\ workers[Len(results) + 1].queue = <<>>

\* SearchTree() has just returned: the game has not begun
Constructed ==
    /\ engine = "pickling"
    /\ pc = "idle"
    /\ hist = Hist0
    /\ gstate = start

\* C14: the construction of the persistent SearchTree raises no error
\* whatever the file holds, and the table is empty when there is no file or
\* when the file is not the pickle of a table.
C14_LoadFailureGivesEmptyTable ==
    /\ engine = "pickling" => pc \notin {"raised", "not_a_table"}
    /\ (Constructed /\ file.kind # "pool") => pool = <<>>

\* the table of the process that wrote the file, and the table loaded from it
Loaded == Constructed /\ file.kind = "pool"

\* the node saved under key k and the node loaded under key k
SavedNode(k) == saved.heap[saved.pool[k]]

LoadedNode(k) == heap[pool[k]]

\* the child links of a table, as (key of the parent, move) pairs
Links(p, h) ==
    {l \in (DOMAIN p) \X (1..MaxChips) : l[2] \in DOMAIN h[p[l[1]]].child_nodes}

\* C17: the table constructed from the file a dump wrote has the keys of the
\* dumped table and, key by key, nodes of equal wins, visits, untried moves and
\* state, whose children are under the same moves, have the same keys, and
\* are one object exactly where the dumped children were one object.
C17_RoundTrip ==
    Loaded =>
        /\ DOMAIN pool = DOMAIN saved.pool
        /\ \A k \in DOMAIN pool :
              /\ LoadedNode(k).wins = SavedNode(k).wins
              /\ LoadedNode(k).visits = SavedNode(k).visits
              /\ LoadedNode(k).untried_moves = SavedNode(k).untried_moves
              /\ LoadedNode(k).state = SavedNode(k).state
              /\ DOMAIN LoadedNode(k).child_nodes = DOMAIN SavedNode(k).child_nodes
              /\ \A m \in DOMAIN LoadedNode(k).child_nodes :
                    /\ LoadedNode(k).child_nodes[m][1] = SavedNode(k).child_nodes[m][1]
                    /\ Repr(heap[LoadedNode(k).child_nodes[m]].state)
                          = Repr(saved.heap[SavedNode(k).child_nodes[m]].state)
                    /\ \A k2 \in DOMAIN pool :
                          (LoadedNode(k).child_nodes[m] = pool[k2])
                             <=> (SavedNode(k).child_nodes[m] = saved.pool[k2])
        /\ \A l1, l2 \in Links(pool, heap) :
              (LoadedNode(l1[1]).child_nodes[l1[2]] = LoadedNode(l2[1]).child_nodes[l2[2]])
                 <=> (SavedNode(l1[1]).child_nodes[l1[2]] = SavedNode(l2[1]).child_nodes[l2[2]])

\* a table of several nodes was loaded, one of them the child of two nodes,
\* one of them visited by searches and with wins
C17_Witness ==
    /\ Loaded
    /\ Cardinality(DOMAIN pool) >= 4
    /\ \E l1, l2 \in Links(pool, heap) :
          /\ l1[1] # l2[1]
          /\ LoadedNode(l1[1]).child_nodes[l1[2]] = LoadedNode(l2[1]).child_nodes[l2[2]]
    /\ \E k \in DOMAIN pool : LoadedNode(k).wins > 0 /\ LoadedNode(k).visits > 2
    /\ \E k \in DOMAIN pool : pool[k] # saved.pool[k]

\* thread t has chosen the move th[t].m of its node, which add_child has not
\* yet taken out of untried_moves
Chosen(t) ==
    /\ t \in Threads
    /\ th[t].pc \in {"get_acq", "get_node", "get_init", "add_acq", "add_remove"}

\* C18: in tree-parallel expansion the choice of an untried move and its
\* removal are one step under the lock of the node: two expanders never have
\* the same untried move of the same TreeNode chosen at once.
C18_ChooseRemoveAtomic ==
    engine = "tree" =>
        \A t1, t2 \in 1..MaxParallel :
            (t1 # t2 /\ Chosen(t1) /\ Chosen(t2)
                /\ Last(th[t1].node).tn = Last(th[t2].node).tn)
              => th[t1].m # th[t2].m

\* what follows of it: add_child is called for a move that is no longer in
\* untried_moves
C18_Raced == engine = "tree" /\ hist.raced

\* the threads of a search and the thread that called uct
Holders == 1..(MaxParallel + 1)

\* the TreeNode locks thread t holds
NodeLocksOf(t) == {id \in DOMAIN node_lock : node_lock[id] = t}

\* thread t takes the table lock in this step
TakesTable(t) == table_lock # t /\ table_lock' = t

\* thread t takes the lock of a TreeNode in this step
TakesNode(t) ==
    \E id \in DOMAIN node_lock' :
        /\ node_lock'[id] = t
        /\ id \in DOMAIN node_lock => node_lock[id] # t

\* no lock is taken by a thread that holds the lock of a TreeNode
C19_Step ==
    \A t \in Holders : (TakesTable(t) \/ TakesNode(t)) => NodeLocksOf(t) = {}

\* C19: in tree-parallel search a thread that holds the lock of a TreeNode
\* takes neither the table lock nor the lock of another TreeNode; so a thread
\* holds at most one node lock, and where it holds the table lock and a node
\* lock together it took the table lock first.
C19_LockOrder ==
    /\ [](engine = "tree" => \A t \in Holders : Cardinality(NodeLocksOf(t)) <= 1)
    /\ [][engine = "tree" => C19_Step]_vars

\* a thread holds the table lock and the lock of the node it constructs,
\* while another thread holds the lock of a node
C19_Witness ==
    /\ engine = "tree"
    /\ \E t1, t2 \in 1..MaxParallel :
          /\ t1 # t2
          /\ table_lock = t1
          /\ NodeLocksOf(t1) # {}
          /\ NodeLocksOf(t2) # {}

\* the child links below the selected node form a cycle
OnCycle(id) ==
    id \in Closure(heap, {heap[id].child_nodes[m] : m \in DOMAIN heap[id].child_nodes})

CyclicLinks == \E id \in Closure(heap, {selected_node.tn}) : OnCycle(id)

\* C20: when the child links form a cycle clean_sub_tree still ends without
\* an error, calls fun on each node at most once, and leaves in the table
\* exactly the nodes reachable from the kept node.
C20_PruneSafeOnCycles ==
    (engine = "ring" /\ pc \in {"traverse", "delete", "returned", "raised"}
        /\ CyclicLinks)
      => /\ pc # "raised"
         /\ \A id \in DOMAIN trav.calls : trav.calls[id] <= 1
         /\ pc = "returned" => PoolNodes(pool) = Closure(heap, {selected_node.tn})

\* without a cycle the pruning ends and keeps the reachable nodes
C20_PruneEndsWithoutCycle ==
    (engine = "ring" /\ pc \in {"traverse", "delete", "returned", "raised"}
        /\ ~CyclicLinks)
      => /\ pc # "raised"
         /\ pc = "returned" => PoolNodes(pool) = Closure(heap, {selected_node.tn})

\* with a cycle below the kept node the pruning never returns
C20_NeverReturnsOnCycle ==
    (engine = "ring" /\ pc \in {"delete", "returned"}) => ~CyclicLinks

\* every thread of the search has ended and uct has gone past the joins
Joined ==
    /\ engine = "tree"
    /\ pc \in {"root_get", "final", "clean_acq", "clean", "returned", "assert_failed"}

\* the root TreeNode of the search that has been joined
JoinedRoot == IF pc = "root_get" THEN pool[Repr(gstate)] ELSE root_node

\* a thread that is inside update holds the lock of the node
UpdateHoldsLock ==
    \A t \in 1..MaxParallel :
        At(t, "update") => node_lock[th[t].node[th[t].j].tn] = t

\* C21: no update of a tree-parallel search is lost: after the joins the
\* visits of the root have grown by P * (iter_max div P), and the wins and
\* visits of every node are what it began with plus what update was called
\* with.
C21_NoLostUpdate ==
    Joined =>
        /\ heap[JoinedRoot].visits = hist.visits0 + parallel_count * Share
        /\ \A id \in DOMAIN heap :
              /\ id \in DOMAIN hist.ledger
              /\ heap[id].wins = hist.ledger[id].wins
              /\ heap[id].visits = hist.ledger[id].visits

\* the end of a search of two threads of two iterations each, in which a
\* child of the root was updated by several iterations
C21_Witness ==
    /\ Joined
    /\ pc = "final"
    /\ parallel_count = 2
    /\ Share = 2
    /\ heap[root_node].visits = hist.visits0 + 4
    /\ \E m \in DOMAIN heap[root_node].child_nodes :
          heap[heap[root_node].child_nodes[m]].visits >= 3

\* a thread that is inside get_node holds the table lock, and the lock of
\* the node it constructs
GetNodeHoldsLock ==
    \A t \in 1..MaxParallel :
        /\ (At(t, "root_get") \/ At(t, "root_init") \/ At(t, "get_node")
               \/ At(t, "get_init")) => table_lock = t
        /\ At(t, "root_init") => node_lock[th[t].root] = t
        /\ At(t, "get_init") => node_lock[th[t].child] = t

\* C22: while the threads of a tree-parallel search run, no two TreeNodes have
\* one key; every thread has from get_node the node that is in the table under
\* the key of its state, and every child link leads to the node of the table
\* for the position the move leads to.
C22_OneNodePerKey ==
    (engine = "tree" /\ pc = "join") =>
        /\ \A id1, id2 \in DOMAIN heap :
              Repr(heap[id1].state) = Repr(heap[id2].state) => id1 = id2
        /\ \A t \in Threads :
              /\ th[t].pc \in {"add_acq", "add_remove", "add_put"} =>
                    /\ Repr(th[t].state) \in DOMAIN pool
                    /\ th[t].child = pool[Repr(th[t].state)]
              /\ th[t].pc \notin {"new", "root_acq", "root_get", "root_init"} =>
                    th[t].root = pool[Repr(gstate)]
        /\ \A k \in DOMAIN pool : \A m \in DOMAIN heap[pool[k]].child_nodes :
              /\ Repr(DoMove(heap[pool[k]].state, m)) \in DOMAIN pool
              /\ heap[pool[k]].child_nodes[m]
                    = pool[Repr(DoMove(heap[pool[k]].state, m))]

\* two threads have called get_node for states of one key and are both
\* about to add the node as a child
C22_Witness ==
    /\ engine = "tree"
    /\ pc = "join"
    /\ \E t1, t2 \in Threads :
          /\ t1 # t2
          /\ th[t1].pc \in {"add_acq", "add_remove", "add_put"}
          /\ th[t2].pc \in {"add_acq", "add_remove", "add_put"}
          /\ th[t1].child = th[t2].child
          /\ heap[th[t1].child].visits = 1

\* the number of SearchNodes of the chain nd whose TreeNode is id
Occurrences(nd, id) == Cardinality({i \in 1..Len(nd) : nd[i].tn = id})

C23_Backprop ==
    (engine = "common" /\ pc = "backprop") =>
        /\ node # <<>>
        /\ node[1].tn = root_node
        /\ GetMoves(state) = <<>>
        /\ DOMAIN heap' = DOMAIN heap
        /\ \A id \in DOMAIN heap :
              /\ heap'[id].visits = heap[id].visits + Occurrences(node, id)
              /\ heap'[id].wins = heap[id].wins
                    + Occurrences(node, id) * GetResult(state, heap[id].state.pjm)
              /\ heap'[id].state = heap[id].state
              /\ heap'[id].child_nodes = heap[id].child_nodes
              /\ heap'[id].untried_moves = heap[id].untried_moves
        /\ pool' = pool

\* C23: the backpropagation of a sequential iteration gives each TreeNode of
\* the SearchNode chain, from the expanded node up to the root, visits + 1 and
\* wins + get_result(its player_just_moved) of the terminal state, once per
\* occurrence on the chain, and changes the wins and visits of no other node.
C23_BackpropUpdatesChainOnly == [][C23_Backprop]_vars

\* after the backpropagation of a chain of three nodes, in a tree that has a
\* node off the chain
C23_Witness ==
    /\ engine = "common"
    /\ pc \in {"select", "final"}
    /\ it >= 3
    /\ hist.phases[4] = it
    /\ \E m1, m2 \in DOMAIN heap[root_node].child_nodes :
          /\ m1 # m2
          /\ heap[heap[root_node].child_nodes[m1]].visits = 2
          /\ DOMAIN heap[heap[root_node].child_nodes[m2]].child_nodes # {}
          /\ heap[heap[root_node].child_nodes[m2]].visits >= 3

\* the states the TreeNodes hold are the states they were constructed with
C24_KeysKept ==
    engine \in {"common", "leaf"} =>
        /\ \A id \in DOMAIN heap : Repr(heap[id].state) = id[1]
        /\ \A k \in DOMAIN pool : Repr(heap[pool[k]].state) = k

C24_Step ==
    (engine \in {"common", "leaf"}) =>
        /\ \A id \in DOMAIN heap \cap DOMAIN heap' : heap'[id].state = heap[id].state
        /\ pc = "rollout" => heap' = heap /\ pool' = pool

\* C24: expansion and rollout of the sequential and the leaf-parallel search
\* work on a clone: no step changes the state a TreeNode holds, every node's
\* state has the key the node is stored under, and the rollout changes no
\* node and no entry of the table.
C24_CloneKeepsTree == []C24_KeysKept /\ [][C24_Step]_vars

\* after an expansion and a rollout of two or more moves from the state of
\* the expanded node
C24_Witness ==
    /\ engine \in {"common", "leaf"}
    /\ pc = "backprop"
    /\ Len(node) >= 2
    /\ heap[Last(node).tn].state.chips >= 2
    /\ heap[Last(node).tn].visits = 1

\* the child links of the TreeNodes of h
ChildLinks(h) ==
    UNION {{<<id, m>> : m \in DOMAIN h[id].child_nodes} : id \in DOMAIN h}

\* the engines whose iterations are those of common.uct
RunsCommonUct == engine \in {"common", "pickling", "root"}

C25_Step ==
    (RunsCommonUct /\ pc \in {"select", "expand", "rollout", "backprop"}) =>
        /\ hist.phases[2] \in {it, it + 1}
        /\ pc # "expand" =>
              /\ pool' = pool
              /\ ChildLinks(heap') = ChildLinks(heap)
        /\ pc = "expand" =>
              /\ Cardinality(DOMAIN pool') <= Cardinality(DOMAIN pool) + 1
              /\ DOMAIN pool \subseteq DOMAIN pool'
              /\ Cardinality(ChildLinks(heap')) <= Cardinality(ChildLinks(heap)) + 1
              /\ ChildLinks(heap) \subseteq ChildLinks(heap')
              /\ (state' # state /\ Repr(state') \in DOMAIN pool) =>
                    /\ pool' = pool
                    /\ DOMAIN heap' = DOMAIN heap
                    /\ ChildLinks(heap') =
                          ChildLinks(heap) \cup {<<Last(node).tn, Last(node').move>>}
                    /\ <<Last(node).tn, Last(node').move>> \notin ChildLinks(heap)

\* C25: an iteration of common.uct has one expansion and only the expansion
\* changes the table and the child links; it adds at most one entry and at
\* most one child link, and when the position reached is already in the table
\* it adds the child link and no entry.
C25_OneNodePerIteration == [][C25_Step]_vars

\* after an expansion into a position that was in the table already
C25_Witness ==
    /\ RunsCommonUct
    /\ pc = "rollout"
    /\ GetMoves(state) # <<>>
    /\ Len(node) >= 2
    /\ hist.made = <<>>
    /\ heap[Last(node).tn].visits >= 2

\* the threads of the first uct call of a game have been joined and
\* clean_sub_tree has not run: the SearchTree was empty when the call began
SearchedFreshTree ==
    /\ engine = "tree"
    /\ hist.searches = 1
    /\ pc \in {"root_get", "final", "clean_acq", "clean"}

\* C26 as stated: after a tree-parallel search that began on an empty
\* SearchTree the table holds at most iter_max nodes before pruning.
C26_NodeCountAtMostIterMax ==
    SearchedFreshTree => Cardinality(DOMAIN pool) <= iter_max

\* C26 amended: after a tree-parallel search that began on an empty
\* SearchTree the table holds, before pruning, at most the node of the root
\* and one node per iteration that the threads ran, which is at most
\* iter_max + 1 nodes; while the threads run it holds no more either.
C26_NodeCountBound ==
    (engine = "tree" /\ hist.searches = 1 /\ pc # "returned") =>
        /\ Cardinality(DOMAIN pool) <= parallel_count * Share + 1
        /\ parallel_count * Share + 1 <= iter_max + 1

\* two threads have spent the budget on the empty tree and the table holds
\* iter_max + 1 nodes
C26_Witness ==
    /\ SearchedFreshTree
    /\ pc = "final"
    /\ parallel_count = 2
    /\ Share >= 1
    /\ Cardinality(DOMAIN pool) = iter_max + 1

\* uct is between the joins and its return: the final selection and
\* clean_sub_tree happen here
PastJoins ==
    /\ engine = "tree"
    /\ pc \in {"root_get", "final", "clean_acq", "clean"}

\* every SearchThread has run all its iterations and holds no lock
C27_AllDone ==
    PastJoins =>
        /\ \A t \in Threads : th[t].pc = "done" /\ th[t].i = Share
        /\ \A t \in 1..MaxParallel : ~ENABLED ThreadStep(t)
        /\ table_lock \in {0, Driver}
        /\ \A id \in DOMAIN node_lock : node_lock[id] = 0

\* from the joins to the return no thread moves, no TreeNode changes, and the
\* table changes only by clean_sub_tree, which removes entries
C27_Step ==
    PastJoins =>
        /\ th' = th
        /\ heap' = heap
        /\ pc' \in {"final", "clean_acq", "clean", "returned", "assert_failed"}
        /\ pc # "clean" => pool' = pool
        /\ pc = "clean" =>
              /\ DOMAIN pool' \subseteq DOMAIN pool
              /\ \A k \in DOMAIN pool' : pool'[k] = pool[k]

\* C27: the final selection and clean_sub_tree of a tree-parallel search run
\* only after every SearchThread has completed all its iterations: from the
\* joins to the return of uct no thread takes a step, so no thread reads or
\* changes a TreeNode or the table while or after the tree is pruned.
C27_EndOfSearchBarrier == []C27_AllDone /\ [][C27_Step]_vars

\* clean_sub_tree is about to prune the tree that two threads searched
C27_Witness ==
    /\ PastJoins
    /\ pc = "clean"
    /\ parallel_count = 2
    /\ Share >= 1
    /\ \A t \in Threads : th[t].pc = "done" /\ th[t].i = Share
    /\ Cardinality(DOMAIN CleanSubTree(pool, heap, selected_node.tn))
           < Cardinality(DOMAIN pool)

\* the TreeNodes of a SearchNode chain
ChainNodes(nd) == {nd[i].tn : i \in 1..Len(nd)}

\* the number of threads whose terminal state was reached by a move of player
\* playerjm: the results that are 1.0 from the viewpoint of playerjm
WonBy(q, playerjm) == Cardinality({i \in 1..Len(q) : q[i].pjm = playerjm})

C15_Backprop ==
    (engine = "leaf" /\ pc = "backprop") =>
        /\ Len(threads) = parallel_count
        /\ \A i \in 1..Len(threads) :
              /\ GetMoves(threads[i]) = <<>>
              /\ threads[i] \in RolloutLoop(state)
        /\ Cardinality(ChainNodes(node)) = Len(node)
        /\ \A id \in ChainNodes(node) :
              /\ heap'[id].visits = heap[id].visits + 1
              /\ (heap'[id].wins - heap[id].wins) * parallel_count
                     = WonBy(threads, heap[id].state.pjm) * WinUnit
        /\ \A id \in DOMAIN heap \ ChainNodes(node) : heap'[id] = heap[id]
        /\ DOMAIN heap' = DOMAIN heap

\* C15: a leaf-parallel iteration runs P rollouts from the one expanded state
\* and walks the path once: each node of the path gets visits + 1 and wins +
\* the mean of the P results seen from the node's player_just_moved; no other
\* node changes.
C15_LeafBackpropAverages == [][C15_Backprop]_vars

\* after a backpropagation of two rollouts that ended differently, along a
\* path of two or more nodes
C15_Witness ==
    /\ engine = "leaf"
    /\ parallel_count >= 2
    /\ pc \in {"select", "final"}
    /\ it >= 1
    /\ hist.phases[4] = it
    /\ heap[root_node].visits = hist.visits0 + it
    /\ heap[root_node].wins % WinUnit # 0
    /\ \E m \in DOMAIN heap[root_node].child_nodes :
          heap[heap[root_node].child_nodes[m]].wins % WinUnit # 0

Blocked(t) ==
    \/ /\ th[t].pc \in {"root_acq", "get_acq"}
       /\ table_lock # 0
    \/ /\ th[t].pc \in {"expand_acq", "add_acq"}
       /\ node_lock[Last(th[t].node).tn] # 0
    \/ /\ th[t].pc = "update_acq"
       /\ node_lock[th[t].node[th[t].j].tn] # 0

NoLockHeld ==
    /\ table_lock = 0
    /\ \A id \in DOMAIN node_lock : node_lock[id] = 0

\* every thread has run all its iterations and no lock is held
ThreadsEnded ==
    /\ \A t \in Threads : th[t].pc = "done" /\ th[t].i = Share
    /\ NoLockHeld

\* C3: tree-parallel search with two or more threads does not deadlock: under
\* fair scheduling no thread waits forever for a lock, every thread gets
\* through all its iterations, and uct returns.
C3_NoDeadlock ==
    (pc = "join" /\ parallel_count >= 2) ~> (pc = "returned" /\ ThreadsEnded)

\* the part of C3 on the locks alone: under fair scheduling every thread gets
\* through all its iterations, no lock stays held, and the call of uct ends,
\* by its return or at the assertion of the final selection
TPSearchEnds ==
    (pc = "join") ~> (pc \in {"returned", "assert_failed"} /\ ThreadsEnded)

\* a thread waiting for a lock that another thread holds
TPContention ==
    /\ parallel_count >= 2
    /\ \E t \in Threads : Blocked(t)

\* C4: once all threads of a tree-parallel search have ended, every TreeNode
\* of the table has untried_moves and children disjoint and together equal to
\* the legal moves, visits >= 1 and 0 <= wins <= visits.
C4_InvariantsAfterJoin ==
    (\A t \in Threads : th[t].pc \in {"new", "done"}) =>
        \A k \in DOMAIN pool :
            LET n == heap[pool[k]]
            IN /\ SeqRange(n.untried_moves) \cap DOMAIN n.child_nodes = {}
               /\ SeqRange(n.untried_moves) \cup DOMAIN n.child_nodes
                      = SeqRange(GetMoves(n.state))
               /\ n.visits >= 1
               /\ 0 <= n.wins
               /\ n.wins <= n.visits * WinUnit

\* the end of a search in which two threads expanded the same move of a node
C4_Witness ==
    /\ pc = "final"
    /\ parallel_count >= 2
    /\ hist.raced
    /\ \A t \in Threads : th[t].pc = "done"

\* C8: uct ends with a move of root_state.get_moves(); the assertion of the
\* final selection does not fail.
C8_ReturnsLegalMove ==
    /\ pc # "assert_failed"
    /\ pc = "returned" => selected_node.move \in SeqRange(GetMoves(gstate))

====
